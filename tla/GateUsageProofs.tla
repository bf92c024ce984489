----------------------------- MODULE GateUsageProofs -----------------------------
(***************************************************************************)
(* The workspace of the gate usage optimization, for every netlist, every  *)
(* set of encodings and any number of runs over it: no gate is simulated   *)
(* before its inputs, nothing an earlier run left is read, and the outputs *)
(* found static are those that a fresh simulation finds static.  Then the  *)
(* netlist that is written: its core has the flops and outputs of the      *)
(* original, whatever words of the encodings are executed.                 *)
(***************************************************************************)
EXTENDS GateUsage, Recursion, SequenceTheorems

------------------------------------------------------------------------------
(* The inductive invariants. *)

\* The simulator was made of a netlist, which it keeps.
IsCompiled(s) == \E n \in GivenNetlists : \E order \in SortedOrders(n) : s = Compiled(n, order)

\* The wires with a driver among those given and the first gates of the order.
Driven(s, gates) ==
  {w \in s.wires : \/ w \in Copies(s.aliases, GivenWires(s.netlist))
                   \/ \E j \in 1 .. gates :
                        w \in Copies(s.aliases, OutputsOf(s.netlist.gates[s.order[j]]))}

\* No stamp is of a later generation.
StampsPast(s) ==
  /\ s \in [values : [simulator.wires -> Bit], stamps : [simulator.wires -> Nat],
            generation : 1 .. Generations - 1]
  /\ \A w \in simulator.wires : s.stamps[w] <= s.generation

PlacesTyped ==
  /\ isStatic \in [GateOutputs -> BOOLEAN]
  /\ staticValues \in [GateOutputs -> Concrete \cup {NoValue}]
  /\ pending \subseteq encodings
  /\ encodings \in GivenEncodings \cup {{}}
  /\ position \in 0 .. Len(simulator.order) + 1

\* While an encoding is simulated, exactly the wires driven so far have a value.
ValuesAreDriven ==
  phase = "simulating" /\ position > 0 =>
    \A w \in simulator.wires :
      Read(stamped, w) # NoValue <=> w \in Driven(simulator, position - 1)

ValuesInvariant == IsCompiled(simulator) /\ StampsPast(stamped) /\ PlacesTyped /\ ValuesAreDriven

\* What a simulation without stamps gives a gate output for an encoding.
Fresh(pattern, o) == Simulated(simulator, KnownInputs(N, pattern), NoneReplaced)[o[2]]

\* The statics are what the simulations of these encodings make of them.
StaticsTell(done) ==
  \A o \in GateOutputs :
    /\ \A p \in done : Fresh(p, o) \in Bit
    /\ isStatic[o] <=> \A p, q \in done : Fresh(p, o) # "x" /\ Fresh(p, o) = Fresh(q, o)
    /\ isStatic[o] => (staticValues[o] = NoValue <=> done = {})
    /\ isStatic[o] => \A p \in done : staticValues[o] = Fresh(p, o)

\* The stamped simulation is where the one without stamps is.
StaticsInvariant ==
  phase = "simulating" =>
    IF position = 0 THEN StaticsTell(encodings \ pending)
    ELSE \E p \in encodings \ pending :
           /\ Readable(stamped) = Simulation(simulator, KnownInputs(N, p), NoneReplaced)[position - 1]
           /\ StaticsTell((encodings \ pending) \ {p})

------------------------------------------------------------------------------
(* Netlists. *)

\* A map that holds every copy and follows every chain of copies.
IsClosed(n, map) ==
  /\ map \in [Sources(n) -> SUBSET Wires(n)]
  /\ \A s \in Sources(n) : SingleAliases(n)[s] \subseteq map[s]
  /\ \A s \in Sources(n) : \A d \in map[s] : map[d] \subseteq map[s]

\* Following the chains ends, with the least such map.
LEMMA AliasesAreLeast ==
  ASSUME NEW n, IsFiniteSet(Wires(n))
  PROVE  /\ IsClosed(n, AliasMap(n))
         /\ \A map : IsClosed(n, map) => \A s \in Sources(n) : AliasMap(n)[s] \subseteq map[s]
<1> DEFINE S == Sources(n)
           W == Wires(n)
           pairs == Cardinality(S \X W)
           last == pairs + 1
           Kept == {f \in [S -> SUBSET W] :
                      \A s \in S : /\ SingleAliases(n)[s] \subseteq f[s]
                                   /\ \A map : IsClosed(n, map) => f[s] \subseteq map[s]}
           Body(g) == [k \in 0 .. last |-> IF k = 0 THEN SingleAliases(n) ELSE LET map == g[k - 1] IN Further(n, map)]
           after == CHOOSE g : g = Body(g)
           step == [k \in 1 .. last |-> [map \in Kept |-> Further(n, map)]]
           Marked(k) == {p \in S \X W : p[2] \in after[k][p[1]]}
<1>1. IsFiniteSet(S \X W) /\ pairs \in Nat
  <2>1. IsFiniteSet({"0"}) /\ IsFiniteSet({"1"})
    BY FS_Singleton
  <2>2. IsFiniteSet({"0"} \cup {"1"})
    BY <2>1, FS_Union
  <2>3. Concrete = {"0"} \cup {"1"}
    BY DEF Concrete
  <2>4. IsFiniteSet(S)
    BY <2>2, <2>3, FS_Union DEF Sources
  <2> QED BY <2>4, FS_Product, FS_CardinalityType
<1>2. last \in Nat /\ pairs \in 0 .. last
  BY <1>1
<1>3. SingleAliases(n) \in Kept
  <2>1. \A s : Assigned(n, s) \subseteq W
    BY DEF Assigned, Wires
  <2>2. SingleAliases(n) \in [S -> SUBSET W]
    BY <2>1 DEF SingleAliases, Sources
  <2> QED BY <2>2 DEF IsClosed
<1>4. ASSUME NEW map \in Kept
      PROVE  Further(n, map) \in Kept /\ \A s \in S : map[s] \subseteq Further(n, map)[s]
  <2>1. \A s \in S : map[s] \subseteq W
    OBVIOUS
  <2>2. \A s \in S : UNION {map[d] : d \in map[s]} \subseteq W
    BY <2>1 DEF Sources
  <2>3. Further(n, map) \in [S -> SUBSET W]
    BY <2>1, <2>2 DEF Further
  <2>4. \A s \in S : Further(n, map)[s] = map[s] \cup (UNION {map[d] : d \in map[s]})
    BY DEF Further
  <2>5. ASSUME NEW s \in S, NEW other, IsClosed(n, other) PROVE Further(n, map)[s] \subseteq other[s]
    <3>1. \A t \in S : map[t] \subseteq other[t]
      BY <2>5
    <3>2. \A d \in map[s] : d \in S /\ d \in other[s]
      BY <2>1, <3>1 DEF Sources
    <3>3. \A d \in map[s] : map[d] \subseteq other[s]
      BY <3>1, <3>2, <2>5 DEF IsClosed
    <3> QED BY <2>4, <3>1, <3>3
  <2>6. \A s \in S : SingleAliases(n)[s] \subseteq Further(n, map)[s]
    BY <2>4
  <2> QED BY <2>3, <2>4, <2>5, <2>6
<1>5. \E f \in [0 .. last -> Kept] : f = Body(f)
  <2>1. step \in [1 .. last -> [Kept -> Kept]]
    BY <1>4
  <2> HIDE DEF step, last, Kept
  <2>2. PICK f \in [0 .. last -> Kept] : Follows(f, last, SingleAliases(n), step)
    BY <1>2, <1>3, <2>1, RecursionExists
  <2>3. f[0] = SingleAliases(n) /\ \A k \in 1 .. last : f[k] = Further(n, f[k - 1])
    <3>1. \A k \in 1 .. last : k - 1 \in 0 .. last
      BY <1>2
    <3> QED BY <2>2, <3>1 DEF Follows, step
  <2>4. f = Body(f)
    BY <1>2, <2>3
  <2> QED BY <2>4
<1>6. after = Body(after)
  <2> HIDE DEF Body, last, Kept
  <2> QED BY <1>5
<1>7. after[0] = SingleAliases(n) /\ \A k \in 1 .. last : after[k] = Further(n, after[k - 1])
  <2> HIDE DEF after, last
  <2>1. \A g : Body(g)[0] = SingleAliases(n) /\ \A k \in 1 .. last : Body(g)[k] = Further(n, g[k - 1])
    BY <1>2
  <2> HIDE DEF Body
  <2> QED BY <1>6, <2>1
<1>8. AliasMap(n) = after[CHOOSE k \in 0 .. pairs : after[k + 1] = after[k]]
  BY DEF AliasMap
<1> HIDE DEF after, pairs
<1>9. \A k \in 0 .. last : after[k] \in Kept
  <2> DEFINE Good == {k \in 0 .. last : after[k] \in Kept}
  <2> HIDE DEF last, Kept
  <2>1. 0 \in Good
    BY <1>2, <1>3, <1>7
  <2>2. \A k \in 0 .. last - 1 : k \in Good => k + 1 \in Good
    <3> SUFFICES ASSUME NEW k \in 0 .. last - 1, k \in Good PROVE k + 1 \in Good
      OBVIOUS
    <3>1. k + 1 \in 1 .. last /\ k + 1 \in 0 .. last /\ (k + 1) - 1 = k
      BY <1>2
    <3>2. after[k + 1] = Further(n, after[k])
      BY <1>7, <3>1
    <3> QED BY <1>4, <3>1, <3>2
  <2> HIDE DEF Good
  <2>3. 0 .. last \subseteq Good
    BY <1>2, <2>1, <2>2, Counting
  <2> QED BY <2>3 DEF Good
<1>10. \A k \in 0 .. pairs : k \in 0 .. last /\ k + 1 \in 0 .. last /\ after[k + 1] = Further(n, after[k])
  <2> SUFFICES ASSUME NEW k \in 0 .. pairs
               PROVE  k \in 0 .. last /\ k + 1 \in 0 .. last /\ after[k + 1] = Further(n, after[k])
    OBVIOUS
  <2>1. k \in 0 .. last /\ k + 1 \in 1 .. last /\ k + 1 \in 0 .. last /\ (k + 1) - 1 = k
    BY <1>1
  <2> QED BY <1>7, <2>1
<1>11. \E k \in 0 .. pairs : after[k + 1] = after[k]
  <2> SUFFICES ASSUME \A k \in 0 .. pairs : after[k + 1] # after[k] PROVE FALSE
    OBVIOUS
  <2>1. \A k \in 0 .. last : IsFiniteSet(Marked(k)) /\ Cardinality(Marked(k)) \in Nat
                              /\ Cardinality(Marked(k)) <= pairs
    <3>1. \A k : Marked(k) \subseteq S \X W
      OBVIOUS
    <3> HIDE DEF Marked
    <3> QED BY <1>1, <3>1, FS_Subset, FS_CardinalityType DEF pairs
  <2>2. ASSUME NEW k \in 0 .. pairs
        PROVE  Cardinality(Marked(k)) < Cardinality(Marked(k + 1))
    <3>1. after[k] \in Kept /\ after[k + 1] \in Kept /\ \A s \in S : after[k][s] \subseteq after[k + 1][s]
      BY <1>4, <1>9, <1>10
    <3>2. Marked(k) \subseteq Marked(k + 1)
      BY <3>1
    <3>3. Marked(k) # Marked(k + 1)
      <4>1. PICK s \in S : after[k][s] # after[k + 1][s]
        BY <3>1
      <4>2. PICK w \in W : w \in after[k + 1][s] /\ w \notin after[k][s]
        BY <3>1, <4>1
      <4>3. <<s, w>> \in Marked(k + 1) /\ <<s, w>> \notin Marked(k)
        BY <4>2
      <4> QED BY <4>3
    <3>4. IsFiniteSet(Marked(k + 1)) /\ Cardinality(Marked(k + 1)) \in Nat /\ Cardinality(Marked(k)) \in Nat
      BY <1>10, <2>1
    <3> HIDE DEF Marked
    <3>5. Cardinality(Marked(k)) <= Cardinality(Marked(k + 1))
            /\ (Cardinality(Marked(k)) = Cardinality(Marked(k + 1)) => Marked(k) = Marked(k + 1))
      BY <3>2, <3>4, FS_Subset
    <3> QED BY <3>3, <3>4, <3>5
  <2> DEFINE Good == {k \in 0 .. last : k <= Cardinality(Marked(k))}
  <2> HIDE DEF Marked
  <2>3. 0 \in Good
    BY <1>1, <2>1
  <2>4. \A k \in 0 .. last - 1 : k \in Good => k + 1 \in Good
    <3> SUFFICES ASSUME NEW k \in 0 .. last - 1, k \in Good PROVE k + 1 \in Good
      OBVIOUS
    <3>1. k \in 0 .. pairs /\ k \in 0 .. last /\ k + 1 \in 0 .. last
      BY <1>1
    <3>2. Cardinality(Marked(k)) < Cardinality(Marked(k + 1)) /\ k <= Cardinality(Marked(k))
      BY <2>2, <3>1
    <3>3. Cardinality(Marked(k)) \in Nat /\ Cardinality(Marked(k + 1)) \in Nat
      BY <2>1, <3>1
    <3>4. k + 1 <= Cardinality(Marked(k + 1))
      BY <3>1, <3>2, <3>3
    <3> QED BY <3>1, <3>4
  <2> HIDE DEF Good
  <2>5. 0 .. last \subseteq Good
    <3> HIDE DEF last
    <3> QED BY <1>2, <2>3, <2>4, Counting
  <2>6. last \in Good
    BY <1>2, <2>5
  <2>7. last \in 0 .. last
    BY <1>2
  <2>8. Cardinality(Marked(last)) \in Nat /\ Cardinality(Marked(last)) <= pairs
    <3> HIDE DEF last
    <3> QED BY <2>1, <2>7
  <2>9. last <= Cardinality(Marked(last))
    BY <2>6 DEF Good
  <2> QED BY <1>1, <2>8, <2>9
<1>12. PICK k \in 0 .. pairs : after[k + 1] = after[k] /\ AliasMap(n) = after[k]
  BY <1>8, <1>11
<1>13. after[k] \in Kept /\ Further(n, after[k]) = after[k]
  BY <1>9, <1>10, <1>12
<1>14. \A s \in S : \A d \in after[k][s] : after[k][d] \subseteq after[k][s]
  <2>1. \A s \in S : Further(n, after[k])[s] = after[k][s] \cup (UNION {after[k][d] : d \in after[k][s]})
    BY DEF Further
  <2> QED BY <1>13, <2>1
<1>15. IsClosed(n, after[k])
  BY <1>13, <1>14 DEF IsClosed
<1> QED BY <1>12, <1>13, <1>15

\* A wire is among its copies, and copies are wires; copies of copies are copies.
LEMMA AliasesKept ==
  ASSUME NEW n, IsFiniteSet(Wires(n))
  PROVE  /\ AliasMap(n) \in [Wires(n) \cup Concrete -> SUBSET Wires(n)]
         /\ \A w \in Wires(n) \ Concrete : w \in AliasMap(n)[w]
         /\ \A s \in Wires(n) \cup Concrete : \A d \in AliasMap(n)[s] : AliasMap(n)[d] \subseteq AliasMap(n)[s]
<1>1. IsClosed(n, AliasMap(n))
  BY AliasesAreLeast
<1>2. \A w \in Wires(n) \ Concrete : w \in SingleAliases(n)[w]
  BY DEF SingleAliases, Sources
<1> QED BY <1>1, <1>2 DEF IsClosed, Sources

\* The names in a netlist are its wires.
LEMMA NamesAreWires ==
  ASSUME NEW n
  PROVE  /\ ToSet(n.inst) \cup n.others \cup n.outputs \cup SequentialOutputWires(n) \subseteq Wires(n)
         /\ \A g \in DOMAIN n.gates : /\ OutputsOf(n.gates[g]) \subseteq Wires(n)
                                    /\ ToSet(n.gates[g].in) \ Concrete \subseteq Wires(n)
<1>1. ToSet(n.inst) \cup n.others \cup n.outputs \cup SequentialOutputWires(n) \subseteq Wires(n)
  BY DEF Wires
<1>2. \A g \in DOMAIN n.gates : OutputsOf(n.gates[g]) \cup (ToSet(n.gates[g].in) \ Concrete) \subseteq Wires(n)
  BY DEF Wires
<1> QED BY <1>1, <1>2

\* A sorted order lists every gate once, and no gate before one that feeds it.
LEMMA OrdersTyped ==
  ASSUME NEW n, IsFiniteSet(DOMAIN n.gates), NEW order \in SortedOrders(n)
  PROVE  /\ order \in Seq(DOMAIN n.gates)
         /\ \A g \in DOMAIN n.gates : \E j \in 1 .. Len(order) : order[j] = g
         /\ \A i, j \in 1 .. Len(order) : i # j => order[i] # order[j]
         /\ \A i, j \in 1 .. Len(order) : i < j => ~Feeds(n, AliasMap(n), order[j], order[i])
<1>1. /\ order \in SetToSeqs(DOMAIN n.gates)
      /\ \A i, j \in DOMAIN order : i < j => ~Feeds(n, AliasMap(n), order[j], order[i])
  BY DEF SortedOrders
<1> DEFINE c == Cardinality(DOMAIN n.gates)
<1>2. /\ order \in [1 .. c -> DOMAIN n.gates] /\ IsInjective(order)
  BY <1>1 DEF SetToSeqs, IsInjective
<1>3. c \in Nat
  BY FS_CardinalityType
<1>4. order \in Seq(DOMAIN n.gates) /\ Len(order) = c
  <2> HIDE DEF c
  <2> QED BY <1>2, <1>3
<1>5. order \in Surjection(1 .. c, DOMAIN n.gates)
  <2>1. order \in Injection(1 .. c, DOMAIN n.gates)
    BY <1>2 DEF Injection, IsInjective
  <2>2. Cardinality(1 .. c) = c /\ IsFiniteSet(1 .. c)
    BY <1>3, FS_Interval
  <2> QED BY <1>3, <2>1, <2>2, FS_Injection
<1>6. \A g \in DOMAIN n.gates : \E j \in 1 .. Len(order) : order[j] = g
  BY <1>4, <1>5 DEF Surjection
<1>7. \A i, j \in 1 .. Len(order) : i # j => order[i] # order[j]
  BY <1>2, <1>4 DEF IsInjective
<1>8. DOMAIN order = 1 .. Len(order)
  BY <1>4
<1> QED BY <1>1, <1>4, <1>6, <1>7, <1>8

\* What a netlist compiles to is made of its wires and gates.
LEMMA CompiledTyped ==
  ASSUME NEW s, IsCompiled(s)
  PROVE  /\ s.netlist \in GivenNetlists
         /\ s.wires = Wires(s.netlist)
         /\ s.order \in Seq(DOMAIN s.netlist.gates)
         /\ \A g \in DOMAIN s.netlist.gates : \E j \in 1 .. Len(s.order) : s.order[j] = g
         /\ \A i, j \in 1 .. Len(s.order) : i # j => s.order[i] # s.order[j]
         /\ s.aliases \in [s.wires -> SUBSET s.wires]
         /\ \A w \in s.wires : s.aliases[w] = AliasMap(s.netlist)[w] /\ w \in s.aliases[w]
         /\ s.constants = ConstantWrites(AliasMap(s.netlist))
         /\ \A i, j \in 1 .. Len(s.order) :
              i < j => ~Feeds(s.netlist, AliasMap(s.netlist), s.order[j], s.order[i])
<1>1. PICK n \in GivenNetlists : \E order \in SortedOrders(n) : s = Compiled(n, order)
  BY DEF IsCompiled
<1>2. PICK order \in SortedOrders(n) : s = Compiled(n, order)
  BY <1>1
<1>3. /\ s.netlist = n /\ s.wires = Wires(n) /\ s.order = order
      /\ s.aliases = AliasWires(n, AliasMap(n)) /\ s.constants = ConstantWrites(AliasMap(n))
  BY <1>2 DEF Compiled
<1>4. WellFormed(n)
  BY GateUsageAssumption
<1>5. /\ AliasMap(n) \in [Wires(n) \cup Concrete -> SUBSET Wires(n)]
      /\ \A w \in Wires(n) \ Concrete : w \in AliasMap(n)[w]
  BY <1>4, AliasesKept DEF WellFormed
<1>6. Wires(n) \cap Concrete = {}
  BY <1>4 DEF WellFormed
<1>7. /\ s.aliases \in [s.wires -> SUBSET s.wires]
      /\ \A w \in s.wires : s.aliases[w] = AliasMap(s.netlist)[w] /\ w \in s.aliases[w]
  BY <1>3, <1>5, <1>6 DEF AliasWires
<1>8. IsFiniteSet(DOMAIN n.gates)
  BY <1>4 DEF WellFormed
<1> QED BY <1>3, <1>7, <1>8, OrdersTyped

\* A copy of a copy of a wire is a copy of it.
LEMMA AliasesClosed ==
  ASSUME IsCompiled(simulator)
  PROVE  \A u \in simulator.wires : \A v \in simulator.aliases[u] :
           simulator.aliases[v] \subseteq simulator.aliases[u]
<1>1. /\ simulator.wires = Wires(N) /\ IsFiniteSet(Wires(N))
      /\ simulator.aliases \in [simulator.wires -> SUBSET simulator.wires]
      /\ \A v \in simulator.wires : simulator.aliases[v] = AliasMap(N)[v]
  BY CompiledTyped, GateUsageAssumption DEF N, WellFormed
<1>2. \A u \in Wires(N) : \A v \in AliasMap(N)[u] : AliasMap(N)[v] \subseteq AliasMap(N)[u]
  BY <1>1, AliasesKept
<1>3. \A u \in simulator.wires : \A v \in simulator.aliases[u] : v \in simulator.wires
  BY <1>1
<1> QED BY ONLY <1>1, <1>2, <1>3

\* A simulation without stamps writes what is given, and then gate by gate.
LEMMA SimulationFollows ==
  ASSUME NEW s, Len(s.order) \in Nat, NEW given, NEW replaced
  PROVE  LET after == Simulation(s, given, replaced)
         IN  /\ after[0] = WriteWithAliases(s, Unwritten(s), Over(given, s.constants))
             /\ \A k \in 1 .. Len(s.order) :
                  after[k] = WriteWithAliases(s, after[k - 1],
                                              Written(s, after[k - 1], s.order[k], replaced))
<1> DEFINE m == Len(s.order)
           first == WriteWithAliases(s, Unwritten(s), Over(given, s.constants))
           Step(wires, k) == WriteWithAliases(s, wires, Written(s, wires, s.order[k], replaced))
           Body(g) == [k \in 0 .. m |-> IF k = 0 THEN first ELSE Step(g[k - 1], k)]
           after == CHOOSE g : g = Body(g)
           Begun(j) == \E f : /\ f = [k \in 0 .. j |-> f[k]] /\ f[0] = first
                              /\ \A k \in 1 .. j : f[k] = Step(f[k - 1], k)
           Good == {j \in 0 .. m : Begun(j)}
<1>1. m \in Nat
  OBVIOUS
<1>2. \E f : f = Body(f)
  <2> HIDE DEF m, first, Step
  <2>1. Begun(0)
    <3> DEFINE f == [k \in 0 .. 0 |-> first]
    <3>1. f = [k \in 0 .. 0 |-> f[k]] /\ f[0] = first /\ \A k \in 1 .. 0 : FALSE
      OBVIOUS
    <3> HIDE DEF f
    <3> QED BY <3>1
  <2>2. ASSUME NEW j \in 0 .. m - 1, Begun(j) PROVE Begun(j + 1)
    <3>1. PICK f : /\ f = [k \in 0 .. j |-> f[k]] /\ f[0] = first
                   /\ \A k \in 1 .. j : f[k] = Step(f[k - 1], k)
      BY <2>2
    <3> DEFINE g == [k \in 0 .. j + 1 |-> IF k = j + 1 THEN Step(f[j], j + 1) ELSE f[k]]
    <3>2. g = [k \in 0 .. j + 1 |-> g[k]] /\ g[0] = first
      BY <1>1, <3>1
    <3>3. \A k \in 1 .. j + 1 : g[k] = Step(g[k - 1], k)
      <4> SUFFICES ASSUME NEW k \in 1 .. j + 1 PROVE g[k] = Step(g[k - 1], k)
        OBVIOUS
      <4>1. CASE k = j + 1
        <5>1. g[k] = Step(f[j], k) /\ g[k - 1] = f[j]
          BY <1>1, <4>1
        <5> HIDE DEF g
        <5> QED BY <5>1
      <4>2. CASE k # j + 1
        <5>1. k \in 1 .. j /\ g[k] = f[k] /\ g[k - 1] = f[k - 1]
          BY <1>1, <4>2
        <5> HIDE DEF g
        <5> QED BY <3>1, <5>1
      <4> QED BY <4>1, <4>2
    <3> HIDE DEF g
    <3> QED BY <3>2, <3>3
  <2> HIDE DEF Begun
  <2>3. \A j \in 0 .. m - 1 : j \in Good => j + 1 \in Good
    BY <1>1, <2>2
  <2>4. 0 \in Good
    BY <1>1, <2>1
  <2> HIDE DEF Good
  <2>5. m \in Good
    <3>1. 0 .. m \subseteq Good
      BY SMTT(40), <1>1, <2>3, <2>4, Counting
    <3> QED BY <1>1, <3>1
  <2>6. PICK f : /\ f = [k \in 0 .. m |-> f[k]] /\ f[0] = first
                 /\ \A k \in 1 .. m : f[k] = Step(f[k - 1], k)
    BY <2>5 DEF Good, Begun
  <2>7. \A k \in 0 .. m : f[k] = IF k = 0 THEN first ELSE Step(f[k - 1], k)
    <3>1. \A k \in 0 .. m : k = 0 \/ k \in 1 .. m
      BY <1>1
    <3> QED BY <2>6, <3>1
  <2> QED BY <2>6, <2>7
<1>3. after = Body(after)
  <2> HIDE DEF Body
  <2> QED BY <1>2
<1>4. after[0] = first /\ \A k \in 1 .. m : after[k] = Step(after[k - 1], k)
  <2> HIDE DEF after, m, first, Step
  <2>1. \A g : Body(g)[0] = first /\ \A k \in 1 .. m : Body(g)[k] = Step(g[k - 1], k)
    BY <1>1
  <2> HIDE DEF Body
  <2> QED BY <1>3, <2>1
<1>5. Simulation(s, given, replaced) = after
  BY DEF Simulation
<1> HIDE DEF after
<1> QED BY <1>4, <1>5

\* The tables of the cells have bits for bits.
LEMMA CellsGiveBits ==
  \A c \in DOMAIN Cells : \A k \in DOMAIN Cells[c] :
    \A operands \in DOMAIN Cells[c][k] : Cells[c][k][operands] \in Bit
<1>1. \A a, b \in Bit : NotBit(a) \in Bit /\ AndBit(a, b) \in Bit /\ OrBit(a, b) \in Bit /\ XorBit(a, b) \in Bit
  BY DEF Bit, NotBit, AndBit, OrBit, XorBit
<1>2. /\ \A i \in LookupInputs(1) : i[1] \in Bit /\ NotBit(i[1]) \in Bit
      /\ \A i \in LookupInputs(2) : /\ AndBit(i[1], i[2]) \in Bit /\ OrBit(i[1], i[2]) \in Bit
                                  /\ XorBit(i[1], i[2]) \in Bit
      /\ \A i \in LookupInputs(3) : OrBit(AndBit(i[3], i[2]), AndBit(i[1], NotBit(i[3]))) \in Bit
  <2>1. /\ \A i \in LookupInputs(1) : i[1] \in Bit
        /\ \A i \in LookupInputs(2) : i[1] \in Bit /\ i[2] \in Bit
        /\ \A i \in LookupInputs(3) : i[1] \in Bit /\ i[2] \in Bit /\ i[3] \in Bit
    BY DEF LookupInputs
  <2>2. \A i \in LookupInputs(3) : /\ AndBit(i[3], i[2]) \in Bit /\ NotBit(i[3]) \in Bit
                                  /\ AndBit(i[1], NotBit(i[3])) \in Bit
    BY <1>1, <2>1
  <2> QED BY <1>1, <2>1, <2>2
<1> SUFFICES ASSUME NEW c \in DOMAIN Cells
             PROVE  \A k \in DOMAIN Cells[c] :
                      \A operands \in DOMAIN Cells[c][k] : Cells[c][k][operands] \in Bit
  OBVIOUS
<1>3. c \in {"BUF", "INV", "AND2", "OR2", "XOR2", "HA", "MUX2"}
  BY DEF Cells
<1>4. CASE c = "BUF"
  <2>1. /\ DOMAIN Cells[c] = {1}
        /\ Cells[c][1] = [i \in LookupInputs(1) |-> i[1]]
    BY <1>4 DEF Cells
  <2> QED BY <1>2, <2>1
<1>5. CASE c = "INV"
  <2>1. /\ DOMAIN Cells[c] = {1}
        /\ Cells[c][1] = [i \in LookupInputs(1) |-> NotBit(i[1])]
    BY <1>5 DEF Cells
  <2> QED BY <1>2, <2>1
<1>6. CASE c = "AND2"
  <2>1. /\ DOMAIN Cells[c] = {1}
        /\ Cells[c][1] = [i \in LookupInputs(2) |-> AndBit(i[1], i[2])]
    BY <1>6 DEF Cells
  <2> QED BY <1>2, <2>1
<1>7. CASE c = "OR2"
  <2>1. /\ DOMAIN Cells[c] = {1}
        /\ Cells[c][1] = [i \in LookupInputs(2) |-> OrBit(i[1], i[2])]
    BY <1>7 DEF Cells
  <2> QED BY <1>2, <2>1
<1>8. CASE c = "XOR2"
  <2>1. /\ DOMAIN Cells[c] = {1}
        /\ Cells[c][1] = [i \in LookupInputs(2) |-> XorBit(i[1], i[2])]
    BY <1>8 DEF Cells
  <2> QED BY <1>2, <2>1
<1>9. CASE c = "HA"
  <2>1. /\ DOMAIN Cells[c] = {1, 2}
        /\ Cells[c][1] = [i \in LookupInputs(2) |-> AndBit(i[1], i[2])]
        /\ Cells[c][2] = [i \in LookupInputs(2) |-> XorBit(i[1], i[2])]
    BY <1>9 DEF Cells
  <2> QED BY <1>2, <2>1
<1>10. CASE c = "MUX2"
  <2>1. /\ DOMAIN Cells[c] = {1}
        /\ Cells[c][1] = [i \in LookupInputs(3) |-> OrBit(AndBit(i[3], i[2]), AndBit(i[1], NotBit(i[3])))]
    BY <1>10 DEF Cells
  <2> QED BY <1>2, <2>1
<1> QED BY <1>3, <1>4, <1>5, <1>6, <1>7, <1>8, <1>9, <1>10

\* Every connected output of a gate gets a bit.
LEMMA GatesGiveBits ==
  ASSUME NEW n \in GivenNetlists, NEW g \in DOMAIN n.gates,
         NEW operands \in [DOMAIN n.gates[g].in -> Bit]
  PROVE  Evaluated(n.gates[g], operands) \in [OutputsOf(n.gates[g]) -> Bit]
<1> DEFINE gate == n.gates[g]
           functions == Cells[gate.cell]
<1>1. /\ gate.cell \in DOMAIN Cells /\ DOMAIN gate.out = DOMAIN functions
      /\ \A k \in DOMAIN functions : DOMAIN functions[k] = LookupInputs(Len(gate.in))
  BY GateUsageAssumption DEF ValidInstances
<1>2. DOMAIN gate.in = 1 .. Len(gate.in)
  BY GateUsageAssumption DEF WellFormed
<1>3. operands \in LookupInputs(Len(gate.in))
  BY <1>2 DEF LookupInputs
<1>4. \A w \in OutputsOf(gate) : (CHOOSE k \in DOMAIN gate.out : gate.out[k] = w) \in DOMAIN functions
  BY <1>1 DEF OutputsOf, ToSet
<1> HIDE DEF gate, functions
<1>5. \A k \in DOMAIN functions : functions[k][operands] \in Bit
  BY <1>1, <1>3, CellsGiveBits DEF functions
<1>6. Evaluated(gate, operands) \in [OutputsOf(gate) -> Bit]
  BY <1>4, <1>5 DEF Evaluated, functions
<1> QED BY <1>6 DEF gate

\* So are the outputs, and what is as good as an output.
LEMMA OutputsCompiled ==
  ASSUME NEW s, IsCompiled(s)
  PROVE  s.outputs = TopModOutputs(s.netlist, AliasMap(s.netlist)) /\ s.outputs \subseteq s.wires
<1>1. PICK n \in GivenNetlists : \E order \in SortedOrders(n) : s = Compiled(n, order)
  BY DEF IsCompiled
<1>2. s.netlist = n /\ s.wires = Wires(n) /\ s.outputs = TopModOutputs(n, AliasMap(n))
  BY <1>1 DEF Compiled
<1>3. n.outputs \cup SequentialInputWires(n) \subseteq Wires(n)
  BY DEF Wires
<1> QED BY <1>2, <1>3 DEF TopModOutputs

\* What is given before any gate is simulated are wires.
LEMMA GivenAreWires ==
  ASSUME NEW n, WellFormed(n)
  PROVE  GivenWires(n) \subseteq Wires(n)
<1>1. AliasMap(n) \in [Wires(n) \cup Concrete -> SUBSET Wires(n)]
  BY AliasesKept DEF WellFormed
<1>2. AliasMap(n)["0"] \subseteq Wires(n) /\ AliasMap(n)["1"] \subseteq Wires(n)
  BY <1>1 DEF Concrete
<1>3. ToSet(n.inst) \cup n.others \cup SequentialOutputWires(n) \subseteq Wires(n)
  BY NamesAreWires
<1> QED BY <1>2, <1>3 DEF GivenWires

\* What is given to a simulation are bits for the given wires.
LEMMA GivenAreBits ==
  ASSUME NEW n \in GivenNetlists, NEW given \in GivenEncodings, NEW pattern \in given
  PROVE  /\ GivenWires(n) \subseteq Wires(n)
         /\ Over(KnownInputs(n, pattern), ConstantWrites(AliasMap(n))) \in [GivenWires(n) -> Bit]
<1>1. pattern \in [1 .. Len(n.inst) -> Bit]
  BY GateUsageAssumption
<1>2. WellFormed(n)
  BY GateUsageAssumption
<1>3. Len(n.inst) \in Nat /\ DOMAIN n.inst = 1 .. Len(n.inst)
  BY <1>2 DEF WellFormed
<1>4. PatternToSimInputs(n, pattern) \in [ToSet(n.inst) \cup n.others -> Bit]
  <2>1. pattern \in Seq(Bit) /\ Len(pattern) = Len(n.inst)
    BY <1>1, <1>3
  <2>2. \A w \in ToSet(n.inst) : (CHOOSE k \in DOMAIN n.inst : n.inst[k] = w) \in 1 .. Len(n.inst)
    BY <1>3 DEF ToSet
  <2>3. \A k \in 1 .. Len(n.inst) : pattern[Len(pattern) + 1 - k] \in Bit
    BY <1>1, <1>3, <2>1
  <2>4. [w \in ToSet(n.inst) |->
           pattern[Len(pattern) + 1 - (CHOOSE k \in DOMAIN n.inst : n.inst[k] = w)]]
          \in [ToSet(n.inst) -> Bit]
    BY <2>2, <2>3
  <2>5. [w \in n.others |-> "x"] \in [n.others -> Bit]
    BY DEF Bit
  <2> QED BY <2>4, <2>5 DEF PatternToSimInputs, Over
<1>5. FlopOutputs(n, "x") \in [SequentialOutputWires(n) -> Bit]
  BY DEF FlopOutputs, Bit
<1>6. KnownInputs(n, pattern) \in [ToSet(n.inst) \cup n.others \cup SequentialOutputWires(n) -> Bit]
  BY <1>4, <1>5 DEF KnownInputs, Over
<1>7. ConstantWrites(AliasMap(n)) \in [AliasMap(n)["0"] \cup AliasMap(n)["1"] -> Bit]
  BY DEF ConstantWrites, Bit
<1>8. Over(KnownInputs(n, pattern), ConstantWrites(AliasMap(n))) \in [GivenWires(n) -> Bit]
  BY <1>6, <1>7 DEF GivenWires, Over
<1>9. GivenWires(n) \subseteq Wires(n)
  BY <1>2, GivenAreWires
<1> QED BY <1>8, <1>9

------------------------------------------------------------------------------
(* Stamped wires. *)

\* After a reset nothing has a value, also when the generations start again.
LEMMA ResetForgets ==
  ASSUME NEW s, StampsPast(s)
  PROVE  StampsPast(Reset(s)) /\ Readable(Reset(s)) = Unwritten(simulator)
<1>1. Generations \in Nat \ {0, 1} /\ s.generation \in 1 .. Generations - 1
  BY GateUsageAssumption DEF StampsPast
<1> DEFINE next == (s.generation + 1) % Generations
<1>2. next = IF s.generation + 1 = Generations THEN 0 ELSE s.generation + 1
  BY <1>1
<1> HIDE DEF next
<1>3. Reset(s) = IF next = 0
                 THEN [s EXCEPT !.stamps = [w \in DOMAIN s.stamps |-> 0], !.generation = 1]
                 ELSE [s EXCEPT !.generation = next]
  BY DEF Reset, next
<1>4. CASE next = 0
  <2>1. Reset(s) = [s EXCEPT !.stamps = [w \in DOMAIN s.stamps |-> 0], !.generation = 1]
    BY <1>3, <1>4
  <2> DEFINE zeros == [w \in simulator.wires |-> 0]
  <2>2. zeros \in [simulator.wires -> Nat] /\ zeros = [w \in DOMAIN s.stamps |-> 0]
    BY DEF StampsPast
  <2>3. \A w \in simulator.wires : zeros[w] = 0
    OBVIOUS
  <2> HIDE DEF zeros
  <2>4. Reset(s) = [s EXCEPT !.stamps = zeros, !.generation = 1]
    BY <2>1, <2>2
  <2>7. s = [values |-> s.values, stamps |-> s.stamps, generation |-> s.generation]
    BY DEF StampsPast
  <2>8. Reset(s) = [values |-> s.values, stamps |-> zeros, generation |-> 1]
    BY <2>4, <2>7
  <2>5. /\ Reset(s).values = s.values /\ Reset(s).generation = 1 /\ Reset(s).stamps = zeros
        /\ Reset(s) \in [values : [simulator.wires -> Bit], stamps : [simulator.wires -> Nat],
                         generation : 1 .. Generations - 1]
    BY <1>1, <2>2, <2>8 DEF StampsPast
  <2>6. DOMAIN s.values = simulator.wires
    BY DEF StampsPast
  <2> QED BY <1>1, <2>3, <2>5, <2>6 DEF StampsPast, Readable, Read, Unwritten
<1>5. CASE next # 0
  <2>1. Reset(s) = [s EXCEPT !.generation = s.generation + 1] /\ s.generation + 1 # Generations
    BY <1>2, <1>3, <1>5
  <2> QED BY <1>1, <2>1 DEF StampsPast, Readable, Read, Unwritten
<1> QED BY <1>4, <1>5

\* Written with stamps or without, the same can be read.
LEMMA WriteStampedWrites ==
  ASSUME IsCompiled(simulator), NEW s, StampsPast(s),
         NEW V \in SUBSET simulator.wires, NEW values \in [V -> Bit]
  PROVE  /\ StampsPast(WriteStamped(s, values))
         /\ Readable(WriteStamped(s, values)) = WriteWithAliases(simulator, Readable(s), values)
         /\ \A w \in simulator.wires :
              Read(WriteStamped(s, values), w) # NoValue
                <=> w \in Copies(simulator.aliases, V) \/ Read(s, w) # NoValue
<1> DEFINE From(w) == {v \in DOMAIN values : w \in simulator.aliases[v]}
           written == {w \in simulator.wires : From(w) # {}}
           Value(w) == values[CHOOSE v \in From(w) : TRUE]
           after == WriteStamped(s, values)
<1>1. after = [s EXCEPT !.values = Over([w \in written |-> Value(w)], s.values),
                        !.stamps = Over([w \in written |-> s.generation], s.stamps)]
  BY DEF WriteStamped, StampsPast
<1>2. \A w \in written : Value(w) \in Bit
  OBVIOUS
<1> HIDE DEF Value, after
<1>3. /\ after.generation = s.generation
      /\ after.values = [w \in simulator.wires |-> IF w \in written THEN Value(w) ELSE s.values[w]]
      /\ after.stamps = [w \in simulator.wires |-> IF w \in written THEN s.generation ELSE s.stamps[w]]
      /\ after = [values |-> after.values, stamps |-> after.stamps, generation |-> after.generation]
  <2> HIDE DEF written
  <2>1. written \subseteq simulator.wires
    BY DEF written
  <2> QED BY <1>1, <2>1 DEF Over, StampsPast
<1>4. StampsPast(after)
  <2> HIDE DEF written
  <2> QED BY <1>2, <1>3 DEF StampsPast
<1>5. \A w \in simulator.wires : Read(after, w) = IF w \in written THEN Value(w) ELSE Read(s, w)
  <2> HIDE DEF written
  <2> QED BY <1>3 DEF Read
<1>6. Readable(after) = WriteWithAliases(simulator, Readable(s), values)
  <2>1. DOMAIN after.values = simulator.wires /\ DOMAIN s.values = simulator.wires
    BY <1>3 DEF StampsPast
  <2>2. \A w \in simulator.wires :
          (IF From(w) = {} THEN Readable(s)[w] ELSE Value(w)) = Read(after, w)
    BY <1>5, <2>1 DEF Readable
  <2>3. WriteWithAliases(simulator, Readable(s), values)
          = [w \in simulator.wires |-> IF From(w) = {} THEN Readable(s)[w] ELSE Value(w)]
    BY DEF WriteWithAliases, Value
  <2> QED BY <2>1, <2>2, <2>3 DEF Readable
<1>7. \A w \in simulator.wires : w \in written <=> w \in Copies(simulator.aliases, V)
  BY DEF Copies
<1>8. NoValue \notin Bit
  BY DEF NoValue, Bit
<1> HIDE DEF written
<1>9. \A w \in simulator.wires :
        Read(after, w) # NoValue <=> w \in Copies(simulator.aliases, V) \/ Read(s, w) # NoValue
  BY <1>2, <1>5, <1>7, <1>8
<1> QED BY <1>4, <1>6, <1>9 DEF after

\* What can be read is a bit.
LEMMA ReadsAreBits ==
  ASSUME NEW s, StampsPast(s), NEW w \in simulator.wires, Read(s, w) # NoValue
  PROVE  Read(s, w) \in Bit /\ Readable(s)[w] = Read(s, w)
BY DEF StampsPast, Read, Readable

------------------------------------------------------------------------------
(* Exactly the wires driven so far have a value. *)

\* The inputs of the next gate are driven: by what is given, or by an earlier gate.
LEMMA InputsAreDriven ==
  ASSUME IsCompiled(simulator), NEW k \in 1 .. Len(simulator.order)
  PROVE  InputWires(simulator.order[k]) \subseteq Driven(simulator, k - 1)
<1> DEFINE n == simulator.netlist
           aliases == AliasMap(n)
           order == simulator.order
           g == order[k]
<1>1. /\ n \in GivenNetlists /\ simulator.wires = Wires(n) /\ order \in Seq(DOMAIN n.gates)
      /\ \A h \in DOMAIN n.gates : \E j \in 1 .. Len(order) : order[j] = h
      /\ \A w \in simulator.wires : simulator.aliases[w] = aliases[w]
      /\ \A i, j \in 1 .. Len(order) : i < j => ~Feeds(n, aliases, order[j], order[i])
  BY CompiledTyped
<1>2. Len(order) \in Nat /\ g \in DOMAIN n.gates
  BY SMTT(40), <1>1
<1>3. WellDriven(n) /\ WellFormed(n)
  BY <1>1, GateUsageAssumption
<1> SUFFICES ASSUME NEW w \in InputWires(g) PROVE w \in Driven(simulator, k - 1)
  OBVIOUS
<1>4. w \in ToSet(n.gates[g].in) \ Concrete
  BY DEF InputWires, N
<1>5. w \in simulator.wires
  BY <1>1, <1>2, <1>4, NamesAreWires
<1>6. w \in Copies(aliases, GivenWires(n))
        \/ \E h \in DOMAIN n.gates \ {g} : w \in Copies(aliases, OutputsOf(n.gates[h]))
  BY <1>2, <1>3, <1>4 DEF WellDriven
<1>7. \A wires \in SUBSET simulator.wires : Copies(simulator.aliases, wires) = Copies(aliases, wires)
  <2>1. \A v \in simulator.wires : simulator.aliases[v] = aliases[v]
    BY <1>1
  <2> QED BY ONLY <2>1 DEF Copies
<1>8. CASE w \in Copies(aliases, GivenWires(n))
  <2>1. GivenWires(n) \subseteq simulator.wires
    BY <1>1, <1>3, GivenAreWires
  <2> QED BY <1>5, <1>7, <1>8, <2>1 DEF Driven
<1>9. CASE \E h \in DOMAIN n.gates \ {g} : w \in Copies(aliases, OutputsOf(n.gates[h]))
  <2>1. PICK h \in DOMAIN n.gates \ {g} : w \in Copies(aliases, OutputsOf(n.gates[h]))
    BY <1>9
  <2>2. PICK j \in 1 .. Len(order) : order[j] = h
    BY <1>1
  <2>3. Feeds(n, aliases, h, g)
    BY <1>4, <2>1 DEF Feeds, Copies
  <2>4. j < k
    BY SMTT(40), <1>1, <1>2, <2>1, <2>2, <2>3
  <2>5. OutputsOf(n.gates[h]) \subseteq simulator.wires
    BY <1>1, NamesAreWires
  <2>6. w \in Copies(simulator.aliases, OutputsOf(n.gates[order[j]]))
    BY <1>7, <2>1, <2>2, <2>5
  <2>7. j \in 1 .. k - 1
    BY <1>2, <2>4
  <2> QED BY <1>5, <2>6, <2>7 DEF Driven
<1> QED BY <1>6, <1>8, <1>9

\* What the gates not simulated yet drive is not driven.
LEMMA OutputsAreNotDriven ==
  ASSUME IsCompiled(simulator), NEW k \in 1 .. Len(simulator.order) + 1,
         NEW i \in k .. Len(simulator.order), NEW w \in OutputWires(simulator.order[i])
  PROVE  w \in simulator.wires /\ w \notin Driven(simulator, k - 1)
<1> DEFINE n == simulator.netlist
           aliases == AliasMap(n)
           order == simulator.order
           g == order[i]
<1>1. /\ n \in GivenNetlists /\ simulator.wires = Wires(n) /\ order \in Seq(DOMAIN n.gates)
      /\ \A a, b \in 1 .. Len(order) : a # b => order[a] # order[b]
      /\ simulator.aliases \in [simulator.wires -> SUBSET simulator.wires]
      /\ \A v \in simulator.wires : simulator.aliases[v] = aliases[v] /\ v \in simulator.aliases[v]
  BY CompiledTyped
<1>2. Len(order) \in Nat /\ i \in 1 .. Len(order)
  BY <1>1
<1>3. g \in DOMAIN n.gates
  BY <1>1, <1>2
<1>4. WellDriven(n) /\ WellFormed(n)
  BY <1>1, GateUsageAssumption
<1>5. \A wires \in SUBSET simulator.wires : Copies(simulator.aliases, wires) = Copies(aliases, wires)
  BY <1>1 DEF Copies
<1>6. OutputsOf(n.gates[g]) \subseteq simulator.wires
  BY <1>1, <1>3, NamesAreWires
<1>7. w \in Copies(aliases, OutputsOf(n.gates[g])) /\ w \in simulator.wires
  BY <1>1, <1>6 DEF OutputWires, WithAliases, Copies, N
<1>8. w \notin Copies(simulator.aliases, GivenWires(n))
  <2>1. GivenWires(n) \subseteq simulator.wires
    BY <1>1, <1>4, GivenAreWires
  <2> QED BY <1>3, <1>4, <1>5, <1>7, <2>1 DEF WellDriven
<1>9. ASSUME NEW j \in 1 .. k - 1 PROVE w \notin Copies(simulator.aliases, OutputsOf(n.gates[order[j]]))
  <2>1. j \in 1 .. Len(order) /\ j # i
    BY <1>2
  <2>2. order[j] \in DOMAIN n.gates \ {g}
    BY <1>1, <1>2, <2>1
  <2>3. OutputsOf(n.gates[order[j]]) \subseteq simulator.wires
    BY <1>1, <2>2, NamesAreWires
  <2> QED BY <1>3, <1>4, <1>5, <1>7, <2>2, <2>3 DEF WellDriven
<1> QED BY <1>7, <1>8, <1>9 DEF Driven

\* So the operands of the next gate are bits.
LEMMA OperandsAreBits ==
  ASSUME ValuesInvariant, phase = "simulating", position \in DOMAIN simulator.order
  PROVE  LET g == simulator.order[position]
             gate == N.gates[g]
         IN  /\ g \in DOMAIN N.gates
             /\ Evaluated(gate, Inputs(Readable(stamped), gate)) \in [OutputsOf(gate) -> Bit]
<1> DEFINE g == simulator.order[position]
           gate == N.gates[g]
           wires == Readable(stamped)
<1>1. IsCompiled(simulator) /\ StampsPast(stamped) /\ position \in Nat
  BY DEF ValuesInvariant, PlacesTyped
<1>2. /\ N \in GivenNetlists /\ simulator.wires = Wires(N) /\ simulator.order \in Seq(DOMAIN N.gates)
  BY <1>1, CompiledTyped DEF N
<1>3. position \in 1 .. Len(simulator.order) /\ g \in DOMAIN N.gates
  BY <1>2
<1>4. \A w \in ToSet(gate.in) \ Concrete : wires[w] \in Bit
  <2> SUFFICES ASSUME NEW w \in ToSet(gate.in) \ Concrete PROVE wires[w] \in Bit
    OBVIOUS
  <2>1. w \in simulator.wires
    BY <1>2, <1>3, NamesAreWires
  <2>2. w \in Driven(simulator, position - 1)
    BY <1>1, <1>3, InputsAreDriven DEF InputWires
  <2>3. Read(stamped, w) # NoValue
    BY <1>3, <2>1, <2>2 DEF ValuesInvariant, ValuesAreDriven
  <2> QED BY <1>1, <2>1, <2>3, ReadsAreBits
<1>5. \A i \in DOMAIN gate.in : gate.in[i] \in ToSet(gate.in)
  BY DEF ToSet
<1> HIDE DEF wires, gate
<1>6. \A i \in DOMAIN gate.in : ReadSimInput(wires, gate.in[i]) \in Bit
  BY <1>4, <1>5 DEF ReadSimInput, Concrete, Bit
<1>7. Inputs(wires, gate) \in [DOMAIN gate.in -> Bit]
  BY <1>6 DEF Inputs
<1> QED BY <1>2, <1>3, <1>7, GatesGiveBits DEF gate, wires

\* A new workspace has no values.
LEMMA ValuesInitially == Init => ValuesInvariant
<1> SUFFICES ASSUME Init PROVE ValuesInvariant
  OBVIOUS
<1>1. IsCompiled(simulator)
  BY DEF Init, IsCompiled
<1>2. StampsPast(stamped)
  <2>1. 1 \in 1 .. Generations - 1
    BY GateUsageAssumption
  <2>2. stamped = NewStamped(simulator.wires)
    BY DEF Init
  <2>3. NewStamped(simulator.wires) \in [values : [simulator.wires -> Bit],
                                        stamps : [simulator.wires -> Nat],
                                        generation : 1 .. Generations - 1]
    BY <2>1 DEF NewStamped, Bit
  <2>4. \A w \in simulator.wires :
          NewStamped(simulator.wires).stamps[w] <= NewStamped(simulator.wires).generation
    BY DEF NewStamped
  <2> QED BY <2>2, <2>3, <2>4 DEF StampsPast
<1>3. PlacesTyped
  <2>1. Len(simulator.order) \in Nat
    BY <1>1, CompiledTyped
  <2>2. isStatic \in [GateOutputs -> BOOLEAN] /\ staticValues \in [GateOutputs -> Concrete \cup {NoValue}]
    BY DEF Init
  <2>3. encodings = {} /\ pending = {} /\ position = 0
    BY DEF Init
  <2> QED BY <2>1, <2>2, <2>3 DEF PlacesTyped
<1> QED BY <1>1, <1>2, <1>3 DEF Init, ValuesInvariant, ValuesAreDriven

\* The facts about the simulator of the next state are those about this one.
LEMMA SameSimulator ==
  ASSUME simulator' = simulator
  PROVE  /\ N' = N /\ GateOutputs' = GateOutputs
         /\ StampsPast(stamped)' <=> StampsPast(stamped')
         /\ IsCompiled(simulator)' <=> IsCompiled(simulator)
BY DEF N, GateOutputs, Gates, StampsPast, IsCompiled

\* The first wires driven are the given ones, then the outputs of the next gate are.
LEMMA DrivenGrows ==
  ASSUME IsCompiled(simulator)
  PROVE  /\ Driven(simulator, 0) = Copies(simulator.aliases, GivenWires(N)) \cap simulator.wires
         /\ \A k \in 1 .. Len(simulator.order) :
              Driven(simulator, k) =
                Driven(simulator, k - 1)
                  \cup (Copies(simulator.aliases, OutputsOf(N.gates[simulator.order[k]])) \cap simulator.wires)
<1>1. Len(simulator.order) \in Nat
  BY CompiledTyped
<1>2. \A j : j \notin 1 .. 0
  OBVIOUS
<1>3. \A k \in 1 .. Len(simulator.order) : 1 .. k = (1 .. k - 1) \cup {k}
  BY <1>1
<1>4. Driven(simulator, 0) = Copies(simulator.aliases, GivenWires(N)) \cap simulator.wires
  BY <1>2 DEF Driven, N
<1>5. ASSUME NEW k \in 1 .. Len(simulator.order)
      PROVE  Driven(simulator, k) =
               Driven(simulator, k - 1)
                 \cup (Copies(simulator.aliases, OutputsOf(N.gates[simulator.order[k]])) \cap simulator.wires)
  BY <1>3 DEF Driven, N
<1> QED BY <1>4, <1>5

\* Every step keeps the values that are stamped those of the encoding under way.
LEMMA ValuesStep == ValuesInvariant /\ [Next]_vars => ValuesInvariant'
<1> SUFFICES ASSUME ValuesInvariant, [Next]_vars PROVE ValuesInvariant'
  OBVIOUS
<1>1. IsCompiled(simulator) /\ StampsPast(stamped)
  BY DEF ValuesInvariant
<1>2. /\ N \in GivenNetlists /\ simulator.wires = Wires(N)
      /\ simulator.order \in Seq(DOMAIN N.gates) /\ Len(simulator.order) \in Nat
      /\ simulator.constants = ConstantWrites(AliasMap(N))
  BY <1>1, CompiledTyped DEF N
<1>3. simulator' = simulator
  BY DEF Next, vars, Begin, StartEncoding, SimulateGate, FinishEncoding, Optimize, Validate, PowerUp, Clock
<1>4. IsCompiled(simulator)'
  BY <1>1, <1>3, SameSimulator
<1> DEFINE Same == stamped' = stamped /\ isStatic' = isStatic /\ staticValues' = staticValues
                   /\ encodings' = encodings /\ pending' = pending /\ position' = position
<1>5. ASSUME Same, phase' = "simulating" => phase = "simulating" PROVE ValuesInvariant'
  <2>1. StampsPast(stamped)'
    BY <1>1, <1>3, <1>5, SameSimulator
  <2>2. PlacesTyped'
    BY <1>3, <1>5, SameSimulator DEF ValuesInvariant, PlacesTyped
  <2>3. ValuesAreDriven'
    BY <1>3, <1>5 DEF ValuesInvariant, ValuesAreDriven
  <2> QED BY <1>4, <2>1, <2>2, <2>3 DEF ValuesInvariant
<1>6. CASE Begin
  <2>1. StampsPast(stamped)'
    BY <1>1, <1>3, <1>6, ResetForgets, SameSimulator DEF Begin
  <2>2. /\ isStatic' \in [GateOutputs -> BOOLEAN]
        /\ staticValues' \in [GateOutputs -> Concrete \cup {NoValue}]
    BY <1>6 DEF Begin
  <2>3. encodings' \in GivenEncodings /\ pending' = encodings' /\ position' = 0
    BY <1>6 DEF Begin
  <2>4. PlacesTyped'
    BY <1>2, <1>3, <2>2, <2>3, SameSimulator DEF PlacesTyped
  <2>5. ValuesAreDriven'
    BY <2>3 DEF ValuesAreDriven
  <2> QED BY <1>4, <2>1, <2>4, <2>5 DEF ValuesInvariant
<1>7. ASSUME NEW pattern \in pending, StartEncoding(pattern) PROVE ValuesInvariant'
  <2> DEFINE values == Over(KnownInputs(N, pattern), simulator.constants)
             clear == Reset(stamped)
  <2>1. /\ phase = "simulating" /\ phase' = phase /\ position' = 1 /\ pending' = pending \ {pattern}
        /\ stamped' = WriteStamped(clear, values)
        /\ isStatic' = isStatic /\ staticValues' = staticValues /\ encodings' = encodings
    BY <1>7 DEF StartEncoding
  <2>2. encodings \in GivenEncodings /\ pattern \in encodings
    BY DEF ValuesInvariant, PlacesTyped
  <2>3. values \in [GivenWires(N) -> Bit] /\ GivenWires(N) \subseteq simulator.wires
    BY <1>2, <2>2, GivenAreBits
  <2>4. StampsPast(clear) /\ Readable(clear) = Unwritten(simulator)
    BY <1>1, ResetForgets
  <2> HIDE DEF values, clear
  <2>5. /\ StampsPast(stamped')
        /\ \A w \in simulator.wires :
             Read(stamped', w) # NoValue
               <=> w \in Copies(simulator.aliases, GivenWires(N)) \/ Read(clear, w) # NoValue
    BY <1>1, <2>1, <2>3, <2>4, WriteStampedWrites
  <2>6. \A w \in simulator.wires : Read(clear, w) = NoValue
    <3>1. DOMAIN clear.values = simulator.wires
      BY <2>4 DEF StampsPast
    <3> QED BY <2>4, <3>1 DEF Readable, Unwritten
  <2>7. \A w \in simulator.wires : Read(stamped', w) # NoValue <=> w \in Driven(simulator, 0)
    BY <1>1, <2>5, <2>6, DrivenGrows
  <2>8. ValuesAreDriven'
    BY <1>3, <2>1, <2>7 DEF ValuesAreDriven
  <2>9. PlacesTyped'
    BY <1>2, <1>3, <2>1, SameSimulator DEF ValuesInvariant, PlacesTyped
  <2>10. StampsPast(stamped)'
    BY <1>3, <2>5, SameSimulator
  <2> QED BY <1>4, <2>8, <2>9, <2>10 DEF ValuesInvariant
<1>8. CASE SimulateGate
  <2> DEFINE g == simulator.order[position]
             gate == N.gates[g]
             values == Evaluated(gate, Inputs(Readable(stamped), gate))
  <2>1. /\ phase = "simulating" /\ phase' = phase /\ position \in DOMAIN simulator.order
        /\ position' = position + 1 /\ stamped' = WriteStamped(stamped, values)
        /\ isStatic' = isStatic /\ staticValues' = staticValues
        /\ encodings' = encodings /\ pending' = pending
    BY <1>8 DEF SimulateGate
  <2>2. position \in 1 .. Len(simulator.order)
    BY <1>2, <2>1
  <2>3. values \in [OutputsOf(gate) -> Bit] /\ g \in DOMAIN N.gates
    BY <2>1, OperandsAreBits
  <2>4. OutputsOf(gate) \subseteq simulator.wires
    BY <1>2, <2>3, NamesAreWires
  <2> HIDE DEF values
  <2>5. /\ StampsPast(stamped')
        /\ \A w \in simulator.wires :
             Read(stamped', w) # NoValue
               <=> w \in Copies(simulator.aliases, OutputsOf(gate)) \/ Read(stamped, w) # NoValue
    BY <1>1, <2>1, <2>3, <2>4, WriteStampedWrites
  <2>6. \A w \in simulator.wires : Read(stamped, w) # NoValue <=> w \in Driven(simulator, position - 1)
    BY <2>1, <2>2 DEF ValuesInvariant, ValuesAreDriven
  <2>7. \A w \in simulator.wires : Read(stamped', w) # NoValue <=> w \in Driven(simulator, position)
    BY <1>1, <2>2, <2>5, <2>6, DrivenGrows
  <2>8. position' - 1 = position
    BY <2>1, <2>2
  <2>9. ValuesAreDriven'
    BY <1>3, <2>7, <2>8 DEF ValuesAreDriven
  <2>10. PlacesTyped'
    BY <1>2, <1>3, <2>1, <2>2, SameSimulator DEF ValuesInvariant, PlacesTyped
  <2>11. StampsPast(stamped)'
    BY <1>3, <2>5, SameSimulator
  <2> QED BY <1>4, <2>9, <2>10, <2>11 DEF ValuesInvariant
<1>9. CASE FinishEncoding
  <2> DEFINE value == [o \in GateOutputs |-> Read(stamped, o[2])]
             still == [o \in GateOutputs |->
                        isStatic[o] /\ value[o] # "x" /\ staticValues[o] \in {NoValue, value[o]}]
  <2>1. /\ isStatic' = still /\ position' = 0 /\ stamped' = stamped
        /\ staticValues' = [o \in GateOutputs |-> IF still[o] THEN value[o] ELSE staticValues[o]]
        /\ encodings' = encodings /\ pending' = pending
    BY <1>9 DEF FinishEncoding
  <2>2. still \in [GateOutputs -> BOOLEAN]
    <3> HIDE DEF value
    <3> QED BY DEF ValuesInvariant, PlacesTyped
  <2>3. \A o \in GateOutputs : still[o] => value[o] \in Concrete \cup {NoValue}
    <3> SUFFICES ASSUME NEW o \in GateOutputs, still[o] PROVE value[o] \in Concrete \cup {NoValue}
      OBVIOUS
    <3>1. o[2] \in simulator.wires /\ value[o] = Read(stamped, o[2]) /\ value[o] # "x"
      BY DEF GateOutputs
    <3>2. value[o] = NoValue \/ value[o] \in Bit
      BY <1>1, <3>1, ReadsAreBits
    <3> QED BY <3>1, <3>2 DEF Bit, Concrete
  <2> HIDE DEF still, value
  <2>4. PlacesTyped'
    BY <1>2, <1>3, <2>1, <2>2, <2>3, SameSimulator DEF ValuesInvariant, PlacesTyped
  <2>5. ValuesAreDriven'
    BY <2>1 DEF ValuesAreDriven
  <2>6. StampsPast(stamped)'
    BY <1>1, <1>3, <2>1, SameSimulator
  <2> QED BY <1>4, <2>4, <2>5, <2>6 DEF ValuesInvariant
<1>10. CASE Optimize
  BY <1>5, <1>10 DEF Optimize, workspace, run
<1>11. CASE Validate
  BY <1>5, <1>11 DEF Validate, workspace, run
<1>12. CASE PowerUp
  BY <1>5, <1>12 DEF PowerUp, workspace, run
<1>13. CASE Clock
  BY <1>5, <1>13 DEF Clock, workspace, run
<1>14. CASE UNCHANGED vars
  BY <1>5, <1>14 DEF vars, workspace, run
<1> QED BY <1>6, <1>7, <1>8, <1>9, <1>10, <1>11, <1>12, <1>13, <1>14 DEF Next

\* The values are those of the encoding under way throughout.
LEMMA ValuesKept == Spec => []ValuesInvariant
BY ValuesInitially, ValuesStep, PTL DEF Spec

\* No gate is simulated before what drives its inputs, under any name.
LEMMA InputsFollow == ValuesInvariant => InputsAreSimulated
<1> SUFFICES ASSUME ValuesInvariant, phase = "simulating", position \in DOMAIN simulator.order,
                    NEW w \in InputWires(simulator.order[position])
             PROVE  Read(stamped, w) # NoValue
  BY DEF InputsAreSimulated
<1>1. IsCompiled(simulator)
  BY DEF ValuesInvariant
<1>2. position \in 1 .. Len(simulator.order)
  BY <1>1, CompiledTyped
<1>3. w \in Driven(simulator, position - 1)
  BY <1>1, <1>2, InputsAreDriven
<1>4. w \in simulator.wires
  BY <1>3 DEF Driven
<1> QED BY <1>2, <1>3, <1>4 DEF ValuesInvariant, ValuesAreDriven

\* No value of an earlier encoding or run is read.
LEMMA NothingStale == ValuesInvariant => NothingStaleIsRead
<1> SUFFICES ASSUME ValuesInvariant, phase = "simulating", position > 0,
                    NEW i \in position .. Len(simulator.order),
                    NEW w \in OutputWires(simulator.order[i])
             PROVE  Read(stamped, w) = NoValue
  BY DEF NothingStaleIsRead
<1>1. IsCompiled(simulator)
  BY DEF ValuesInvariant
<1>2. position \in 1 .. Len(simulator.order) + 1
  BY DEF ValuesInvariant, PlacesTyped
<1>3. w \in simulator.wires /\ w \notin Driven(simulator, position - 1)
  BY <1>1, <1>2, OutputsAreNotDriven
<1> QED BY <1>3 DEF ValuesInvariant, ValuesAreDriven

\* The type invariant is part of it.
LEMMA PlacesInType == ValuesInvariant => TypeOK
<1> SUFFICES ASSUME ValuesInvariant PROVE TypeOK
  OBVIOUS
<1>1. /\ \A w \in simulator.wires : stamped.values[w] \in Bit
      /\ stamped.generation \in 1 .. Generations - 1
      /\ \A w \in simulator.wires :
           stamped.stamps[w] \in Nat /\ stamped.stamps[w] <= stamped.generation
  BY DEF ValuesInvariant, StampsPast
<1>2. Generations \in Nat
  BY GateUsageAssumption
<1>3. \A w \in simulator.wires : stamped.stamps[w] \in 0 .. Generations - 1
  BY <1>1, <1>2
<1> QED BY <1>1, <1>3 DEF ValuesInvariant, PlacesTyped, TypeOK

\* The workspace, in use for any number of encodings and runs, holds of the wires
\* what the gates simulated so far have driven: every gate finds its inputs, and
\* nothing that was simulated before.
THEOREM WorkspaceIsOfThisEncoding == Spec => []WorkspaceInvariant
<1>1. ValuesInvariant => WorkspaceInvariant
  BY InputsFollow, NothingStale, PlacesInType DEF WorkspaceInvariant
<1> QED BY <1>1, ValuesKept, PTL

------------------------------------------------------------------------------
(* The statics are those of fresh simulations. *)

\* Once all gates are simulated every gate output has a bit.
LEMMA OutputsHaveBits ==
  ASSUME ValuesInvariant, phase = "simulating", position = Len(simulator.order) + 1,
         NEW o \in GateOutputs
  PROVE  Read(stamped, o[2]) \in Bit /\ Readable(stamped)[o[2]] = Read(stamped, o[2])
<1>1. IsCompiled(simulator) /\ StampsPast(stamped)
  BY DEF ValuesInvariant
<1>2. /\ \A g \in DOMAIN N.gates : \E j \in 1 .. Len(simulator.order) : simulator.order[j] = g
      /\ \A w \in simulator.wires : w \in simulator.aliases[w]
      /\ Len(simulator.order) \in Nat
  BY <1>1, CompiledTyped DEF N
<1>3. o[1] \in DOMAIN N.gates /\ o[2] \in simulator.wires /\ o[2] \in OutputsOf(N.gates[o[1]])
  BY DEF GateOutputs, Gates
<1>4. PICK j \in 1 .. Len(simulator.order) : simulator.order[j] = o[1]
  BY <1>2, <1>3
<1>5. o[2] \in Driven(simulator, Len(simulator.order))
  <2>1. o[2] \in Copies(simulator.aliases, OutputsOf(N.gates[simulator.order[j]]))
    BY <1>2, <1>3, <1>4 DEF Copies
  <2> QED BY <1>3, <2>1 DEF Driven, N
<1>6. Read(stamped, o[2]) # NoValue
  BY <1>2, <1>3, <1>5 DEF ValuesInvariant, ValuesAreDriven
<1> QED BY <1>1, <1>3, <1>6, ReadsAreBits

\* What one more encoding does to the statics.
LEMMA OneMoreTells ==
  ASSUME PlacesTyped, NEW done, NEW p, p \notin done, StaticsTell(done),
         NEW o \in GateOutputs, Fresh(p, o) \in Bit,
         NEW still, still = (isStatic[o] /\ Fresh(p, o) # "x" /\ staticValues[o] \in {NoValue, Fresh(p, o)}),
         NEW value, value = IF still THEN Fresh(p, o) ELSE staticValues[o]
  PROVE  LET all == done \cup {p}
         IN  /\ \A q \in all : Fresh(q, o) \in Bit
             /\ still <=> \A q, r \in all : Fresh(q, o) # "x" /\ Fresh(q, o) = Fresh(r, o)
             /\ still => (value = NoValue <=> all = {})
             /\ still => \A q \in all : value = Fresh(q, o)
<1>1. /\ \A q \in done : Fresh(q, o) \in Bit
      /\ isStatic[o] <=> \A q, r \in done : Fresh(q, o) # "x" /\ Fresh(q, o) = Fresh(r, o)
      /\ isStatic[o] => (staticValues[o] = NoValue <=> done = {})
      /\ isStatic[o] => \A q \in done : staticValues[o] = Fresh(q, o)
  BY DEF StaticsTell
<1>2. NoValue \notin Bit
  BY DEF NoValue, Bit
<1>3. isStatic[o] \in BOOLEAN /\ still \in BOOLEAN
  BY DEF PlacesTyped
<1>4. CASE still
  <2>1. \A q \in done : Fresh(q, o) = Fresh(p, o)
    BY <1>1, <1>2, <1>4
  <2> QED BY <1>1, <1>2, <1>4, <2>1
<1>5. CASE ~still
  <2>1. ~(\A q, r \in done \cup {p} : Fresh(q, o) # "x" /\ Fresh(q, o) = Fresh(r, o))
    BY <1>1, <1>5
  <2> QED BY <1>1, <1>5, <2>1
<1> QED BY <1>4, <1>5

\* Every step keeps the flags those of the encodings finished.
LEMMA StaticsStep == ValuesInvariant /\ StaticsInvariant /\ [Next]_vars => StaticsInvariant'
<1> SUFFICES ASSUME ValuesInvariant, StaticsInvariant, [Next]_vars PROVE StaticsInvariant'
  OBVIOUS
<1>1. IsCompiled(simulator) /\ StampsPast(stamped) /\ PlacesTyped
  BY DEF ValuesInvariant
<1>2. /\ N \in GivenNetlists /\ simulator.wires = Wires(N)
      /\ simulator.order \in Seq(DOMAIN N.gates) /\ Len(simulator.order) \in Nat
      /\ simulator.constants = ConstantWrites(AliasMap(N))
  BY <1>1, CompiledTyped DEF N
<1>3. simulator' = simulator
  BY DEF Next, vars, Begin, StartEncoding, SimulateGate, FinishEncoding, Optimize, Validate, PowerUp, Clock
<1>4. N' = N /\ GateOutputs' = GateOutputs
  BY <1>3, SameSimulator
<1>5. \A p, o : Fresh(p, o)' = Fresh(p, o)
  BY <1>3, <1>4 DEF Fresh
<1>6. ASSUME NEW done, isStatic' = isStatic, staticValues' = staticValues, StaticsTell(done)
      PROVE  StaticsTell(done)'
  BY <1>4, <1>5, <1>6 DEF StaticsTell
<1>7. CASE Begin
  <2>1. encodings' \ pending' = {} /\ position' = 0 /\ \A o \in GateOutputs : isStatic'[o] /\ staticValues'[o] = NoValue
    BY <1>7 DEF Begin
  <2>2. StaticsTell(encodings \ pending)'
    BY <1>4, <2>1 DEF StaticsTell
  <2> QED BY <2>1, <2>2 DEF StaticsInvariant
<1>8. ASSUME NEW pattern \in pending, StartEncoding(pattern) PROVE StaticsInvariant'
  <2> DEFINE values == Over(KnownInputs(N, pattern), simulator.constants)
             clear == Reset(stamped)
  <2>1. /\ phase = "simulating" /\ position = 0 /\ position' = 1 /\ pending' = pending \ {pattern}
        /\ stamped' = WriteStamped(clear, values)
        /\ isStatic' = isStatic /\ staticValues' = staticValues /\ encodings' = encodings
    BY <1>8 DEF StartEncoding
  <2>2. encodings \in GivenEncodings /\ pattern \in encodings
    BY <1>1 DEF PlacesTyped
  <2>3. values \in [GivenWires(N) -> Bit] /\ GivenWires(N) \subseteq simulator.wires
    BY <1>2, <2>2, GivenAreBits
  <2>4. StampsPast(clear) /\ Readable(clear) = Unwritten(simulator)
    BY <1>1, ResetForgets
  <2>5. Simulation(simulator, KnownInputs(N, pattern), NoneReplaced)[0]
          = WriteWithAliases(simulator, Unwritten(simulator), values)
    BY <1>2, SimulationFollows
  <2> HIDE DEF values, clear
  <2>6. Readable(stamped') = Simulation(simulator, KnownInputs(N, pattern), NoneReplaced)[0]
    BY <1>1, <2>1, <2>3, <2>4, <2>5, WriteStampedWrites
  <2>7. StaticsTell(encodings \ pending)
    BY <2>1 DEF StaticsInvariant
  <2>8. (encodings' \ pending') \ {pattern} = encodings \ pending /\ pattern \in encodings' \ pending'
    BY <2>1, <2>2
  <2>9. StaticsTell((encodings \ pending) \ {pattern})'
    BY <1>4, <1>5, <2>1, <2>7, <2>8 DEF StaticsTell
  <2>10. position' - 1 = 0 /\ position' # 0
    BY <2>1
  <2> QED BY <1>3, <1>4, <2>6, <2>8, <2>9, <2>10 DEF StaticsInvariant, Readable, Read
<1>9. CASE SimulateGate
  <2> DEFINE g == simulator.order[position]
             gate == N.gates[g]
             values == Evaluated(gate, Inputs(Readable(stamped), gate))
  <2>1. /\ phase = "simulating" /\ position \in DOMAIN simulator.order
        /\ position' = position + 1 /\ stamped' = WriteStamped(stamped, values)
        /\ isStatic' = isStatic /\ staticValues' = staticValues
        /\ encodings' = encodings /\ pending' = pending
    BY <1>9 DEF SimulateGate
  <2>2. position \in 1 .. Len(simulator.order)
    BY <1>2, <2>1
  <2>3. values \in [OutputsOf(gate) -> Bit] /\ g \in DOMAIN N.gates
    BY <2>1, OperandsAreBits
  <2>4. OutputsOf(gate) \subseteq simulator.wires
    BY <1>2, <2>3, NamesAreWires
  <2>5. PICK p \in encodings \ pending :
          /\ Readable(stamped) = Simulation(simulator, KnownInputs(N, p), NoneReplaced)[position - 1]
          /\ StaticsTell((encodings \ pending) \ {p})
    <3>1. position # 0
      BY <1>2, <2>2
    <3> QED BY <2>1, <3>1 DEF StaticsInvariant
  <2> DEFINE after == Simulation(simulator, KnownInputs(N, p), NoneReplaced)
  <2>6. after[position] = WriteWithAliases(simulator, after[position - 1],
                                           Written(simulator, after[position - 1], g, NoneReplaced))
    BY <1>2, <2>2, SimulationFollows
  <2>7. Written(simulator, after[position - 1], g, NoneReplaced) = values
    BY <2>5 DEF Written, NoneReplaced, N
  <2> HIDE DEF values, after
  <2>8. Readable(stamped') = after[position]
    BY <1>1, <2>1, <2>3, <2>4, <2>5, <2>6, <2>7, WriteStampedWrites DEF after
  <2>9. StaticsTell((encodings \ pending) \ {p})'
    BY <1>4, <1>5, <2>1, <2>5 DEF StaticsTell
  <2>10. position' - 1 = position /\ position' # 0
    BY <2>1, <2>2
  <2>11. Readable(stamped)' = Simulation(simulator, KnownInputs(N, p), NoneReplaced)'[position' - 1]
    BY <1>3, <1>4, <2>8, <2>10 DEF Readable, Read, after
  <2> QED BY <2>1, <2>5, <2>9, <2>10, <2>11 DEF StaticsInvariant
<1>10. CASE FinishEncoding
  <2> DEFINE value == [o \in GateOutputs |-> Read(stamped, o[2])]
             still == [o \in GateOutputs |->
                        isStatic[o] /\ value[o] # "x" /\ staticValues[o] \in {NoValue, value[o]}]
             all == encodings \ pending
  <2>1. /\ phase = "simulating" /\ position = Len(simulator.order) + 1
        /\ isStatic' = still /\ position' = 0
        /\ staticValues' = [o \in GateOutputs |-> IF still[o] THEN value[o] ELSE staticValues[o]]
        /\ encodings' = encodings /\ pending' = pending
    BY <1>10 DEF FinishEncoding
  <2>2. position # 0 /\ position - 1 = Len(simulator.order)
    BY <1>2, <2>1
  <2>3. PICK p \in all :
          /\ Readable(stamped) = Simulation(simulator, KnownInputs(N, p), NoneReplaced)[position - 1]
          /\ StaticsTell(all \ {p})
    BY <2>1, <2>2 DEF StaticsInvariant
  <2>4. ASSUME NEW o \in GateOutputs PROVE value[o] = Fresh(p, o) /\ Fresh(p, o) \in Bit
    <3>1. Read(stamped, o[2]) \in Bit /\ Readable(stamped)[o[2]] = Read(stamped, o[2])
      BY <2>1, OutputsHaveBits
    <3>2. Fresh(p, o) = Readable(stamped)[o[2]]
      BY <2>2, <2>3 DEF Fresh, Simulated
    <3> QED BY <3>1, <3>2
  <2> DEFINE done == all \ {p}
  <2>5. done \cup {p} = all /\ p \notin done /\ all' = all
    BY <2>1, <2>3
  <2>6. ASSUME NEW o \in GateOutputs
        PROVE  /\ isStatic'[o] = (isStatic[o] /\ Fresh(p, o) # "x" /\ staticValues[o] \in {NoValue, Fresh(p, o)})
               /\ staticValues'[o] = IF isStatic'[o] THEN Fresh(p, o) ELSE staticValues[o]
    <3> HIDE DEF value
    <3> QED BY <2>1, <2>4
  <2> HIDE DEF all, value, still, done
  <2>7. ASSUME NEW o \in GateOutputs
        PROVE  /\ \A q \in all : Fresh(q, o) \in Bit
               /\ isStatic'[o] <=> \A q, r \in all : Fresh(q, o) # "x" /\ Fresh(q, o) = Fresh(r, o)
               /\ isStatic'[o] => (staticValues'[o] = NoValue <=> all = {})
               /\ isStatic'[o] => \A q \in all : staticValues'[o] = Fresh(q, o)
    BY <1>1, <2>3, <2>4, <2>5, <2>6, OneMoreTells DEF done
  <2>8. StaticsTell(all)'
    BY <1>4, <1>5, <2>5, <2>7 DEF StaticsTell
  <2> QED BY <2>1, <2>8 DEF StaticsInvariant, all
<1> DEFINE Same == stamped' = stamped /\ isStatic' = isStatic /\ staticValues' = staticValues
                   /\ encodings' = encodings /\ pending' = pending /\ position' = position
<1>11. ASSUME Same, phase' = phase PROVE StaticsInvariant'
  BY <1>3, <1>4, <1>5, <1>11 DEF StaticsInvariant, StaticsTell, Readable, Read
<1>12. CASE Optimize
  BY <1>12 DEF Optimize, StaticsInvariant
<1>13. CASE Validate
  BY <1>11, <1>13 DEF Validate, workspace, run
<1>14. CASE PowerUp
  BY <1>14 DEF PowerUp, StaticsInvariant
<1>15. CASE Clock
  BY <1>11, <1>15 DEF Clock, workspace, run
<1>16. CASE UNCHANGED vars
  BY <1>11, <1>16 DEF vars, workspace, run
<1> QED BY <1>7, <1>8, <1>9, <1>10, <1>12, <1>13, <1>14, <1>15, <1>16 DEF Next

\* And so they are throughout.
LEMMA StaticsKept == Spec => []StaticsInvariant
<1>1. Init => StaticsInvariant
  BY DEF Init, StaticsInvariant
<1> QED BY <1>1, ValuesKept, StaticsStep, PTL DEF Spec

\* Between the encodings of a run, the workspace finds static exactly the outputs to
\* which fresh simulations give one constant for all encodings simulated so far.
THEOREM StaticsAreFresh == Spec => []StaticsAreOfThisRun
<1>1. StaticsInvariant => StaticsAreOfThisRun
  <2> SUFFICES ASSUME StaticsInvariant, phase = "simulating", position = 0, NEW o \in GateOutputs
               PROVE  LET values == {Fresh(p, o) : p \in encodings \ pending}
                      IN  isStatic[o] <=> "x" \notin values /\ Cardinality(values) <= 1
    BY DEF StaticsAreOfThisRun, Fresh
  <2> DEFINE done == encodings \ pending
             values == {Fresh(p, o) : p \in done}
  <2>1. /\ \A p \in done : Fresh(p, o) \in Bit
        /\ isStatic[o] <=> \A p, q \in done : Fresh(p, o) # "x" /\ Fresh(p, o) = Fresh(q, o)
    BY DEF StaticsInvariant, StaticsTell
  <2>2. IsFiniteSet(values)
    <3>1. values \subseteq Bit
      BY <2>1
    <3>2. IsFiniteSet(Bit)
      <4>1. IsFiniteSet({"0"}) /\ IsFiniteSet({"1"}) /\ IsFiniteSet({"x"})
        BY FS_Singleton
      <4>2. IsFiniteSet(({"0"} \cup {"1"}) \cup {"x"})
        BY <4>1, FS_Union
      <4>3. Bit = ({"0"} \cup {"1"}) \cup {"x"}
        BY DEF Bit
      <4> QED BY <4>2, <4>3
    <3> QED BY <3>1, <3>2, FS_Subset
  <2>3. Cardinality(values) <= 1 <=> \A a, b \in values : a = b
    <3> HIDE DEF values
    <3>1. Cardinality(values) \in Nat
      BY <2>2, FS_CardinalityType
    <3>2. ASSUME \A a, b \in values : a = b PROVE Cardinality(values) <= 1
      <4>1. CASE values = {}
        BY <4>1, FS_EmptySet
      <4>2. CASE values # {}
        <5>1. PICK a : a \in values
          BY <4>2
        <5>2. values = {a}
          BY <3>2, <5>1
        <5>3. Cardinality(values) = 1
          BY <5>2, FS_Singleton
        <5> QED BY <5>3
      <4> QED BY <4>1, <4>2
    <3>3. ASSUME Cardinality(values) <= 1, NEW a \in values, NEW b \in values PROVE a = b
      <4>1. Cardinality(values) = 0 \/ Cardinality(values) = 1
        BY <3>1, <3>3
      <4>2. CASE Cardinality(values) = 0
        BY <2>2, <4>2, FS_EmptySet
      <4>3. CASE Cardinality(values) = 1
        <5>1. PICK c : values = {c}
          BY <2>2, <4>3, FS_Singleton
        <5> QED BY <5>1
      <4> QED BY <4>1, <4>2, <4>3
    <3> QED BY <3>2, <3>3
  <2> QED BY <2>1, <2>3
<1> QED BY <1>1, StaticsKept, PTL

------------------------------------------------------------------------------
(* Simulations with and without replaced gates. *)

\* Where nothing is replaced, gates write what they compute.
LEMMA WrittenAnew ==
  /\ DOMAIN NoneReplaced = {}
  /\ \A wires, g : /\ Written(simulator, wires, g, NoneReplaced)
                       = Evaluated(N.gates[g], Inputs(wires, N.gates[g]))
                   /\ Written(simulator, wires, g, NoneReplaced)
                       = [w \in OutputsOf(N.gates[g]) |-> Written(simulator, wires, g, NoneReplaced)[w]]
<1>1. DOMAIN NoneReplaced = {}
  BY DEF NoneReplaced
<1>2. \A wires, g : Written(simulator, wires, g, NoneReplaced)
                       = Evaluated(N.gates[g], Inputs(wires, N.gates[g]))
  BY <1>1 DEF Written, N
<1>3. \A gate, operands : Evaluated(gate, operands) = [w \in OutputsOf(gate) |-> Evaluated(gate, operands)[w]]
  BY DEF Evaluated
<1> QED BY <1>1, <1>2, <1>3

\* An output of a gate keeps the value the gate gave it.
LEMMA OutputsKeepTheirValues ==
  ASSUME IsCompiled(simulator), NEW given, NEW replaced,
         \A g \in DOMAIN replaced \cap DOMAIN N.gates : DOMAIN replaced[g] = OutputsOf(N.gates[g]),
         NEW k \in 1 .. Len(simulator.order), NEW w \in OutputsOf(N.gates[simulator.order[k]])
  PROVE  LET after == Simulation(simulator, given, replaced)
         IN  after[Len(simulator.order)][w]
               = Written(simulator, after[k - 1], simulator.order[k], replaced)[w]
<1> DEFINE after == Simulation(simulator, given, replaced)
           order == simulator.order
           n == simulator.netlist
           m == Len(order)
           Writes(j) == Written(simulator, after[j - 1], order[j], replaced)
           value == Writes(k)[w]
<1>1. /\ N = n /\ n \in GivenNetlists /\ simulator.wires = Wires(n) /\ order \in Seq(DOMAIN n.gates)
      /\ \A i, j \in 1 .. m : i # j => order[i] # order[j]
      /\ simulator.aliases \in [simulator.wires -> SUBSET simulator.wires]
      /\ \A v \in simulator.wires : simulator.aliases[v] = AliasMap(n)[v] /\ v \in simulator.aliases[v]
  BY CompiledTyped DEF N
<1>2. m \in Nat /\ \A j \in 1 .. m : order[j] \in DOMAIN n.gates
  BY <1>1
<1>3. WellDriven(n)
  BY <1>1, GateUsageAssumption
<1>4. \A j \in 1 .. m : OutputsOf(n.gates[order[j]]) \subseteq simulator.wires
  BY <1>1, <1>2, NamesAreWires
<1>5. \A j \in 1 .. m : DOMAIN Writes(j) = OutputsOf(n.gates[order[j]])
  BY <1>1, <1>2 DEF Written, Evaluated
<1>6. \A j \in 1 .. m : after[j] = WriteWithAliases(simulator, after[j - 1], Writes(j))
  BY <1>2, SimulationFollows
<1>7. w \in simulator.wires
  BY <1>1, <1>4
<1> HIDE DEF after, Writes, m
<1>8. after[k][w] = value
  <2>1. {v \in DOMAIN Writes(k) : w \in simulator.aliases[v]} = {w}
    <3>1. \A v \in OutputsOf(n.gates[order[k]]) : v # w => w \notin simulator.aliases[v]
      BY SMTT(40), <1>1, <1>2, <1>3, <1>4, <1>7 DEF WellDriven, m
    <3> QED BY <1>1, <1>5, <1>7, <3>1 DEF m
  <2>2. (CHOOSE v \in {w} : TRUE) = w
    OBVIOUS
  <2>3. after[k] = WriteWithAliases(simulator, after[k - 1], Writes(k))
    BY <1>6 DEF m
  <2> QED BY <1>7, <2>1, <2>2, <2>3 DEF WriteWithAliases
<1>9. ASSUME NEW j \in k + 1 .. m PROVE after[j][w] = after[j - 1][w]
  <2>1. j \in 1 .. m /\ j # k
    BY <1>2 DEF m
  <2>2. {v \in DOMAIN Writes(j) : w \in simulator.aliases[v]} = {}
    <3>1. order[j] # order[k] /\ order[j] \in DOMAIN n.gates /\ order[k] \in DOMAIN n.gates
      BY <1>1, <1>2, <2>1 DEF m
    <3>2. Copies(AliasMap(n), OutputsOf(n.gates[order[j]])) \cap Copies(AliasMap(n), OutputsOf(n.gates[order[k]])) = {}
      BY <1>3, <3>1 DEF WellDriven
    <3>3. w \in Copies(AliasMap(n), OutputsOf(n.gates[order[k]]))
      BY <1>1, <1>7 DEF Copies
    <3> QED BY SMTT(40), <1>1, <1>4, <1>5, <2>1, <3>2, <3>3 DEF Copies
  <2>3. after[j] = WriteWithAliases(simulator, after[j - 1], Writes(j))
    BY <1>6, <2>1
  <2> QED BY ONLY <1>7, <2>2, <2>3 DEF WriteWithAliases
<1>10. after[m][w] = value
  <2> DEFINE Good == {d \in 0 .. m - k : after[k + d][w] = value}
  <2>1. m \in Nat /\ k \in Nat /\ k >= 1 /\ m - k \in Nat
    BY <1>2 DEF m
  <2>2. 0 \in Good
    BY <1>8, <2>1
  <2>3. \A d \in 0 .. (m - k) - 1 : d \in Good => d + 1 \in Good
    <3> SUFFICES ASSUME NEW d \in 0 .. (m - k) - 1, d \in Good PROVE d + 1 \in Good
      OBVIOUS
    <3>1. k + (d + 1) \in k + 1 .. m /\ (k + (d + 1)) - 1 = k + d /\ d + 1 \in 0 .. m - k
      <4> HIDE DEF Good
      <4> QED BY <2>1
    <3> HIDE DEF value
    <3>2. after[k + (d + 1)][w] = after[k + d][w]
      BY <1>9, <3>1
    <3> QED BY <3>1, <3>2
  <2> HIDE DEF Good
  <2>4. 0 .. m - k \subseteq Good
    BY <2>1, <2>2, <2>3, Counting
  <2>5. m - k \in Good
    BY <2>1, <2>4
  <2>6. k + (m - k) = m
    BY <1>2, <2>1
  <2> QED BY <2>5, <2>6 DEF Good
<1> QED BY <1>10 DEF after, Writes, m

\* Gates replaced by what they give anyway make no difference.
LEMMA ReplacedAlike ==
  ASSUME IsCompiled(simulator), NEW given, NEW replaced,
         \A g \in DOMAIN replaced : /\ g \in DOMAIN N.gates
                                    /\ DOMAIN replaced[g] = OutputsOf(N.gates[g])
                                    /\ replaced[g] = [w \in DOMAIN replaced[g] |-> replaced[g][w]],
         \A g \in DOMAIN replaced : \A w \in OutputsOf(N.gates[g]) :
           replaced[g][w] = Simulated(simulator, given, NoneReplaced)[w]
  PROVE  Simulated(simulator, given, replaced) = Simulated(simulator, given, NoneReplaced)
<1> DEFINE one == Simulation(simulator, given, NoneReplaced)
           other == Simulation(simulator, given, replaced)
           order == simulator.order
           m == Len(order)
           Good == {j \in 0 .. m : other[j] = one[j]}
<1>1. m \in Nat /\ \A j \in 1 .. m : order[j] \in DOMAIN N.gates
  BY SMTT(40), CompiledTyped DEF N
<1>2. 0 \in Good
  BY <1>1, SimulationFollows
<1>3. \A j \in 0 .. m - 1 : j \in Good => j + 1 \in Good
  <2> SUFFICES ASSUME NEW j \in 0 .. m - 1, j \in Good PROVE j + 1 \in Good
    OBVIOUS
  <2> DEFINE k == j + 1
             g == order[k]
  <2>1. k \in 1 .. m /\ k \in 0 .. m /\ k - 1 = j
    BY <1>1
  <2>2. one[k] = WriteWithAliases(simulator, one[j], Written(simulator, one[j], g, NoneReplaced))
    BY <1>1, <2>1, SimulationFollows
  <2>3. other[k] = WriteWithAliases(simulator, other[j], Written(simulator, other[j], g, replaced))
    BY <1>1, <2>1, SimulationFollows
  <2>4. Written(simulator, one[j], g, replaced) = Written(simulator, one[j], g, NoneReplaced)
    <3>1. CASE g \in DOMAIN replaced
      <4>1. \A w \in OutputsOf(N.gates[g]) : one[m][w] = Written(simulator, one[j], g, NoneReplaced)[w]
        <5>1. \A h \in DOMAIN NoneReplaced \cap DOMAIN N.gates : DOMAIN NoneReplaced[h] = OutputsOf(N.gates[h])
          BY WrittenAnew
        <5>2. \A w \in OutputsOf(N.gates[order[k]]) :
                one[Len(order)][w] = Written(simulator, one[k - 1], order[k], NoneReplaced)[w]
          BY <2>1, <5>1, OutputsKeepTheirValues
        <5> HIDE DEF one
        <5> QED BY <2>1, <5>2
      <4>2. \A w \in OutputsOf(N.gates[g]) : replaced[g][w] = one[m][w]
        BY <3>1 DEF Simulated
      <4>3. Written(simulator, one[j], g, NoneReplaced)
              = [w \in OutputsOf(N.gates[g]) |-> Written(simulator, one[j], g, NoneReplaced)[w]]
        BY WrittenAnew
      <4>4. Written(simulator, one[j], g, replaced) = replaced[g]
        BY <3>1 DEF Written
      <4> HIDE DEF one, m, g
      <4> QED BY <3>1, <4>1, <4>2, <4>3, <4>4
    <3>2. CASE g \notin DOMAIN replaced
      BY <3>2, WrittenAnew DEF Written
    <3> QED BY <3>1, <3>2
  <2> HIDE DEF one, other, g
  <2> QED BY <2>1, <2>2, <2>3, <2>4
<1> HIDE DEF Good
<1>4. 0 .. m \subseteq Good
  BY <1>1, <1>2, <1>3, Counting
<1>5. m \in Good
  BY <1>1, <1>4
<1> QED BY <1>5 DEF Good, Simulated

------------------------------------------------------------------------------
(* The removed gates. *)

Visited == [needed : SUBSET simulator.wires, cut : SUBSET simulator.wires, gates : SUBSET Gates]

\* The gates are visited one by one, and wires and gates marked.
LEMMA VisitsFollow ==
  ASSUME IsCompiled(simulator), NEW static
  PROVE  LET m == Len(simulator.order)
         IN  /\ \A k \in 0 .. m : Visits(static)[k] \in Visited
             /\ Visits(static)[0] = [needed |-> simulator.outputs, cut |-> {}, gates |-> {}]
             /\ \A k \in 1 .. m :
                  Visits(static)[k] = Visit(Visits(static)[k - 1], simulator.order[m + 1 - k], static)
<1> DEFINE order == simulator.order
           m == Len(order)
           first == [needed |-> simulator.outputs, cut |-> {}, gates |-> {}]
           Next1(d, k) == Visit(d, order[m + 1 - k], static)
           Body(g) == [k \in 0 .. m |-> IF k = 0 THEN first ELSE Next1(g[k - 1], k)]
           after == CHOOSE g : g = Body(g)
           step == [k \in 1 .. m |-> [d \in Visited |-> Next1(d, k)]]
<1>1. /\ m \in Nat /\ \A j \in 1 .. m : order[j] \in Gates
      /\ simulator.wires = Wires(N)
      /\ simulator.aliases \in [simulator.wires -> SUBSET simulator.wires]
  BY SMTT(40), CompiledTyped DEF N, Gates
<1>2. first \in Visited
  <2>1. simulator.outputs \subseteq simulator.wires
    BY OutputsCompiled
  <2> QED BY <2>1 DEF Visited
<1>3. \A wires \in SUBSET simulator.wires : WithAliases(wires) \subseteq simulator.wires
  BY <1>1 DEF WithAliases
<1>4. ASSUME NEW d \in Visited, NEW k \in 1 .. m PROVE Next1(d, k) \in Visited
  <2> DEFINE g == order[m + 1 - k]
             inputs == WithAliases(InputWires(g))
  <2>1. g \in Gates
    BY <1>1
  <2>2. inputs \subseteq simulator.wires
    BY <1>1, <1>3, <2>1, NamesAreWires DEF InputWires, Gates
  <2> HIDE DEF g, inputs
  <2>3. Visit(d, g, static) \in {d, [d EXCEPT !.cut = @ \cup inputs], [d EXCEPT !.needed = @ \cup inputs],
                                  [d EXCEPT !.cut = @ \cup inputs, !.gates = @ \cup {g}]}
    BY DEF Visit, inputs
  <2>4. Visit(d, g, static) \in Visited
    BY ZenonT(40), <2>1, <2>2, <2>3 DEF Visited
  <2> QED BY <2>4 DEF g
<1>5. \E f \in [0 .. m -> Visited] : f = Body(f)
  <2>1. step \in [1 .. m -> [Visited -> Visited]]
    BY <1>4
  <2> HIDE DEF step, m, Next1, first
  <2>2. PICK f \in [0 .. m -> Visited] : Follows(f, m, first, step)
    BY <1>1, <1>2, <2>1, RecursionExists
  <2>3. f[0] = first /\ \A k \in 1 .. m : f[k] = Next1(f[k - 1], k)
    <3>1. \A k \in 1 .. m : k - 1 \in 0 .. m
      BY <1>1
    <3> QED BY <2>2, <3>1 DEF Follows, step
  <2>4. f = Body(f)
    BY <1>1, <2>3
  <2> QED BY <2>4
<1>6. after = Body(after)
  <2> HIDE DEF Body, m
  <2> QED BY <1>5
<1>7. after[0] = first /\ \A k \in 1 .. m : after[k] = Next1(after[k - 1], k)
  <2>1. m \in Nat
    BY <1>1
  <2> HIDE DEF after, m, Next1, first
  <2>2. \A g : Body(g)[0] = first /\ \A k \in 1 .. m : Body(g)[k] = Next1(g[k - 1], k)
    BY <2>1
  <2> HIDE DEF Body
  <2> QED BY <1>6, <2>2
<1>8. Visits(static) = after
  BY DEF Visits
<1>9. \A k \in 0 .. m : after[k] \in Visited
  <2> DEFINE Good == {k \in 0 .. m : after[k] \in Visited}
  <2> HIDE DEF after, m, Next1, first
  <2>1. 0 \in Good
    BY <1>1, <1>2, <1>7
  <2>2. \A k \in 0 .. m - 1 : k \in Good => k + 1 \in Good
    <3> SUFFICES ASSUME NEW k \in 0 .. m - 1, k \in Good PROVE k + 1 \in Good
      OBVIOUS
    <3>1. k + 1 \in 1 .. m /\ k + 1 \in 0 .. m /\ (k + 1) - 1 = k
      BY <1>1
    <3>2. after[k + 1] = Next1(after[k], k + 1)
      BY <1>7, <3>1
    <3> QED BY <1>4, <3>1, <3>2
  <2> HIDE DEF Good
  <2>3. 0 .. m \subseteq Good
    BY <1>1, <2>1, <2>2, Counting
  <2> QED BY <2>3 DEF Good
<1> QED BY <1>7, <1>8, <1>9

\* Only gates are unobservable.
LEMMA UnobservableAreGates ==
  ASSUME IsCompiled(simulator), NEW static
  PROVE  UnobservableGates(static) \subseteq Gates
<1>1. Len(simulator.order) \in 0 .. Len(simulator.order)
  BY CompiledTyped
<1> QED BY <1>1, VisitsFollow DEF UnobservableGates, Visited

------------------------------------------------------------------------------
(* Simulations of inputs that are more or less known, and where they settle. *)

\* A bit stands for another one if it is unknown or the same.
Covers(a, b) == a \in {"x", b}

\* The more a cell knows of its inputs, the more it says.
LEMMA CellsSharpen ==
  \A c \in DOMAIN Cells : \A k \in DOMAIN Cells[c] :
    \A a, b \in DOMAIN Cells[c][k] :
      (\A i \in DOMAIN a : Covers(a[i], b[i])) => Covers(Cells[c][k][a], Cells[c][k][b])
<1>1. \A a, b \in Bit : /\ NotBit(a) \in Bit /\ AndBit(a, b) \in Bit /\ OrBit(a, b) \in Bit
                        /\ XorBit(a, b) \in Bit
  BY DEF Bit, NotBit, AndBit, OrBit, XorBit
<1>2. \A a, b \in Bit : Covers(a, b) => Covers(NotBit(a), NotBit(b))
  BY DEF Bit, Covers, NotBit
<1>3. \A a, b, c, d \in Bit : Covers(a, c) /\ Covers(b, d) => Covers(AndBit(a, b), AndBit(c, d))
  BY DEF Bit, Covers, AndBit
<1>4. \A a, b, c, d \in Bit : Covers(a, c) /\ Covers(b, d) => Covers(OrBit(a, b), OrBit(c, d))
  BY DEF Bit, Covers, OrBit
<1>5. \A a, b, c, d \in Bit : Covers(a, c) /\ Covers(b, d) => Covers(XorBit(a, b), XorBit(c, d))
  BY DEF Bit, Covers, XorBit
<1> DEFINE Known(a, b) == \A i \in DOMAIN a : Covers(a[i], b[i])
           Mux(i) == OrBit(AndBit(i[3], i[2]), AndBit(i[1], NotBit(i[3])))
<1>6. \A a \in LookupInputs(1) : DOMAIN a = {1} /\ a[1] \in Bit
  BY DEF LookupInputs
<1>7. \A a \in LookupInputs(2) : DOMAIN a = {1, 2} /\ a[1] \in Bit /\ a[2] \in Bit
  BY DEF LookupInputs
<1>8. \A a \in LookupInputs(3) : DOMAIN a = {1, 2, 3} /\ a[1] \in Bit /\ a[2] \in Bit /\ a[3] \in Bit
  BY DEF LookupInputs
<1>9. \A a, b \in LookupInputs(1) :
        Known(a, b) => Covers(a[1], b[1]) /\ Covers(NotBit(a[1]), NotBit(b[1]))
  BY <1>2, <1>6
<1>10. \A a, b \in LookupInputs(2) :
         Known(a, b) => /\ Covers(AndBit(a[1], a[2]), AndBit(b[1], b[2]))
                        /\ Covers(OrBit(a[1], a[2]), OrBit(b[1], b[2]))
                        /\ Covers(XorBit(a[1], a[2]), XorBit(b[1], b[2]))
  <2> SUFFICES ASSUME NEW a \in LookupInputs(2), NEW b \in LookupInputs(2), Known(a, b)
               PROVE  /\ Covers(AndBit(a[1], a[2]), AndBit(b[1], b[2]))
                      /\ Covers(OrBit(a[1], a[2]), OrBit(b[1], b[2]))
                      /\ Covers(XorBit(a[1], a[2]), XorBit(b[1], b[2]))
    OBVIOUS
  <2>1. Covers(a[1], b[1]) /\ Covers(a[2], b[2])
    BY <1>7
  <2> QED BY <1>3, <1>4, <1>5, <1>7, <2>1
<1>11. \A a, b \in LookupInputs(3) : Known(a, b) => Covers(Mux(a), Mux(b))
  <2> SUFFICES ASSUME NEW a \in LookupInputs(3), NEW b \in LookupInputs(3), Known(a, b)
               PROVE  Covers(Mux(a), Mux(b))
    OBVIOUS
  <2>1. Covers(a[1], b[1]) /\ Covers(a[2], b[2]) /\ Covers(a[3], b[3])
    BY <1>8
  <2>2. Covers(NotBit(a[3]), NotBit(b[3])) /\ NotBit(a[3]) \in Bit /\ NotBit(b[3]) \in Bit
    BY <1>1, <1>2, <1>8, <2>1
  <2>3. /\ Covers(AndBit(a[3], a[2]), AndBit(b[3], b[2]))
        /\ AndBit(a[3], a[2]) \in Bit /\ AndBit(b[3], b[2]) \in Bit
    BY <1>1, <1>3, <1>8, <2>1
  <2>4. /\ Covers(AndBit(a[1], NotBit(a[3])), AndBit(b[1], NotBit(b[3])))
        /\ AndBit(a[1], NotBit(a[3])) \in Bit /\ AndBit(b[1], NotBit(b[3])) \in Bit
    BY <1>1, <1>3, <1>8, <2>1, <2>2
  <2> QED BY <1>4, <2>3, <2>4
<1> SUFFICES ASSUME NEW c \in DOMAIN Cells
             PROVE  \A k \in DOMAIN Cells[c] : \A a, b \in DOMAIN Cells[c][k] :
                      Known(a, b) => Covers(Cells[c][k][a], Cells[c][k][b])
  OBVIOUS
<1> HIDE DEF Known
<1>12. c \in {"BUF", "INV", "AND2", "OR2", "XOR2", "HA", "MUX2"}
  BY DEF Cells
<1>13. CASE c = "BUF"
  <2>1. DOMAIN Cells[c] = {1} /\ Cells[c][1] = [i \in LookupInputs(1) |-> i[1]]
    BY <1>13 DEF Cells
  <2> QED BY <1>9, <2>1
<1>14. CASE c = "INV"
  <2>1. DOMAIN Cells[c] = {1} /\ Cells[c][1] = [i \in LookupInputs(1) |-> NotBit(i[1])]
    BY <1>14 DEF Cells
  <2> QED BY <1>9, <2>1
<1>15. CASE c = "AND2"
  <2>1. DOMAIN Cells[c] = {1} /\ Cells[c][1] = [i \in LookupInputs(2) |-> AndBit(i[1], i[2])]
    BY <1>15 DEF Cells
  <2> QED BY <1>10, <2>1
<1>16. CASE c = "OR2"
  <2>1. DOMAIN Cells[c] = {1} /\ Cells[c][1] = [i \in LookupInputs(2) |-> OrBit(i[1], i[2])]
    BY <1>16 DEF Cells
  <2> QED BY <1>10, <2>1
<1>17. CASE c = "XOR2"
  <2>1. DOMAIN Cells[c] = {1} /\ Cells[c][1] = [i \in LookupInputs(2) |-> XorBit(i[1], i[2])]
    BY <1>17 DEF Cells
  <2> QED BY <1>10, <2>1
<1>18. CASE c = "HA"
  <2>1. /\ DOMAIN Cells[c] = {1, 2} /\ Cells[c][1] = [i \in LookupInputs(2) |-> AndBit(i[1], i[2])]
        /\ Cells[c][2] = [i \in LookupInputs(2) |-> XorBit(i[1], i[2])]
    BY <1>18 DEF Cells
  <2> QED BY <1>10, <2>1
<1>19. CASE c = "MUX2"
  <2>1. DOMAIN Cells[c] = {1} /\ Cells[c][1] = [i \in LookupInputs(3) |-> Mux(i)]
    BY <1>19 DEF Cells
  <2> HIDE DEF Mux
  <2> QED BY <1>11, <2>1
<1> QED BY <1>12, <1>13, <1>14, <1>15, <1>16, <1>17, <1>18, <1>19

\* A gate whose inputs are known better says more and nothing else.
LEMMA GatesSharpen ==
  ASSUME NEW n \in GivenNetlists, NEW g \in DOMAIN n.gates,
         NEW a \in [DOMAIN n.gates[g].in -> Bit], NEW b \in [DOMAIN n.gates[g].in -> Bit],
         \A i \in DOMAIN n.gates[g].in : Covers(a[i], b[i]),
         NEW w \in OutputsOf(n.gates[g])
  PROVE  Covers(Evaluated(n.gates[g], a)[w], Evaluated(n.gates[g], b)[w])
<1> DEFINE gate == n.gates[g]
           functions == Cells[gate.cell]
           k == CHOOSE j \in DOMAIN gate.out : gate.out[j] = w
<1>1. /\ gate.cell \in DOMAIN Cells /\ DOMAIN gate.out = DOMAIN functions
      /\ \A j \in DOMAIN functions : DOMAIN functions[j] = LookupInputs(Len(gate.in))
  BY GateUsageAssumption DEF ValidInstances
<1>2. DOMAIN gate.in = 1 .. Len(gate.in)
  BY GateUsageAssumption DEF WellFormed
<1>3. a \in LookupInputs(Len(gate.in)) /\ b \in LookupInputs(Len(gate.in)) /\ DOMAIN a = DOMAIN gate.in
  BY <1>2 DEF LookupInputs
<1>4. k \in DOMAIN functions
  BY <1>1 DEF OutputsOf, ToSet
<1>5. Evaluated(gate, a)[w] = functions[k][a] /\ Evaluated(gate, b)[w] = functions[k][b]
  BY DEF Evaluated
<1>6. \A i \in DOMAIN a : Covers(a[i], b[i])
  BY <1>3
<1> HIDE DEF gate, k
<1>7. Covers(functions[k][a], functions[k][b])
  BY <1>1, <1>3, <1>4, <1>6, CellsSharpen
<1> QED BY <1>5, <1>7 DEF gate

\* A wire written by a gate or copying one gets a value of the gate, any other keeps its own.
LEMMA GateWrites ==
  ASSUME IsCompiled(simulator), NEW given, NEW k \in 1 .. Len(simulator.order),
         NEW w \in simulator.wires
  PROVE  LET after == Simulation(simulator, given, NoneReplaced)
             gate == N.gates[simulator.order[k]]
             from == {v \in OutputsOf(gate) : w \in simulator.aliases[v]}
         IN  after[k][w] = IF from = {} THEN after[k - 1][w]
                           ELSE Evaluated(gate, Inputs(after[k - 1], gate))[CHOOSE v \in from : TRUE]
<1> DEFINE after == Simulation(simulator, given, NoneReplaced)
           g == simulator.order[k]
           values == Written(simulator, after[k - 1], g, NoneReplaced)
<1>1. Len(simulator.order) \in Nat
  BY CompiledTyped
<1>2. after[k] = WriteWithAliases(simulator, after[k - 1], values)
  BY <1>1, SimulationFollows
<1>3. values = Evaluated(N.gates[g], Inputs(after[k - 1], N.gates[g]))
  BY WrittenAnew
<1>4. DOMAIN values = OutputsOf(N.gates[g])
  BY <1>3 DEF Evaluated
<1> HIDE DEF after, values, g
<1>5. after[k][w] = IF {v \in DOMAIN values : w \in simulator.aliases[v]} = {} THEN after[k - 1][w]
                    ELSE values[CHOOSE v \in {v \in DOMAIN values : w \in simulator.aliases[v]} : TRUE]
  BY <1>2 DEF WriteWithAliases
<1>6. after[k][w] = IF {v \in OutputsOf(N.gates[g]) : w \in simulator.aliases[v]} = {} THEN after[k - 1][w]
                    ELSE values[CHOOSE v \in {v \in OutputsOf(N.gates[g]) : w \in simulator.aliases[v]} : TRUE]
  BY <1>4, <1>5
<1> QED BY <1>3, <1>6 DEF after, g

\* First there is what is given.
LEMMA GivenIsWritten ==
  ASSUME IsCompiled(simulator), NEW given, NEW w \in simulator.wires
  PROVE  LET values == Over(given, simulator.constants)
             from == {v \in DOMAIN values : w \in simulator.aliases[v]}
         IN  Simulation(simulator, given, NoneReplaced)[0][w]
               = IF from = {} THEN NoValue ELSE values[CHOOSE v \in from : TRUE]
<1>1. Len(simulator.order) \in Nat
  BY CompiledTyped
<1>2. Simulation(simulator, given, NoneReplaced)[0]
        = WriteWithAliases(simulator, Unwritten(simulator), Over(given, simulator.constants))
  BY <1>1, SimulationFollows
<1> QED BY <1>2 DEF WriteWithAliases, Unwritten

\* What is given is a bit for each wire that must have one.
GivesBits(given) == Over(given, simulator.constants) \in [GivenWires(N) -> Bit]

\* The operands of a gate are bits if all wires driven before it are.
LEMMA DrivenOperands ==
  ASSUME IsCompiled(simulator), NEW k \in 1 .. Len(simulator.order), NEW wires,
         \A w \in Driven(simulator, k - 1) : wires[w] \in Bit
  PROVE  LET gate == N.gates[simulator.order[k]]
         IN  Inputs(wires, gate) \in [DOMAIN gate.in -> Bit]
<1> DEFINE gate == N.gates[simulator.order[k]]
<1>1. ToSet(gate.in) \ Concrete \subseteq Driven(simulator, k - 1)
  BY InputsAreDriven DEF InputWires
<1>2. \A i \in DOMAIN gate.in : gate.in[i] \in ToSet(gate.in)
  BY DEF ToSet
<1> HIDE DEF gate
<1>3. \A i \in DOMAIN gate.in : ReadSimInput(wires, gate.in[i]) \in Bit
  BY <1>1, <1>2 DEF ReadSimInput, Concrete, Bit
<1>4. Inputs(wires, gate) \in [DOMAIN gate.in -> Bit]
  BY <1>3 DEF Inputs
<1> QED BY <1>4 DEF gate

\* After any number of gates, what is driven has a bit.
LEMMA DrivenAreBits ==
  ASSUME IsCompiled(simulator), NEW given, GivesBits(given)
  PROVE  \A k \in 0 .. Len(simulator.order) : \A w \in Driven(simulator, k) :
           Simulation(simulator, given, NoneReplaced)[k][w] \in Bit
<1> DEFINE after == Simulation(simulator, given, NoneReplaced)
           m == Len(simulator.order)
           Good == {k \in 0 .. m : \A w \in Driven(simulator, k) : after[k][w] \in Bit}
           values == Over(given, simulator.constants)
<1>1. /\ m \in Nat /\ N \in GivenNetlists
      /\ \A k \in 1 .. m : simulator.order[k] \in DOMAIN N.gates
  BY SMTT(40), CompiledTyped DEF N
<1>2. 0 \in Good
  <2> SUFFICES ASSUME NEW w \in Driven(simulator, 0) PROVE after[0][w] \in Bit
    BY <1>1
  <2> DEFINE from == {v \in DOMAIN values : w \in simulator.aliases[v]}
  <2>1. w \in simulator.wires /\ w \in Copies(simulator.aliases, GivenWires(N))
    BY DrivenGrows
  <2>2. from # {} /\ \A v \in from : values[v] \in Bit
    BY <2>1 DEF Copies, GivesBits
  <2>3. after[0][w] = IF from = {} THEN NoValue ELSE values[CHOOSE v \in from : TRUE]
    BY <2>1, GivenIsWritten
  <2> HIDE DEF after, from, values
  <2> QED BY <2>2, <2>3
<1>3. \A k \in 0 .. m - 1 : k \in Good => k + 1 \in Good
  <2> SUFFICES ASSUME NEW k \in 0 .. m - 1, k \in Good, NEW w \in Driven(simulator, k + 1)
               PROVE  k + 1 \in 0 .. m /\ after[k + 1][w] \in Bit
    OBVIOUS
  <2> DEFINE j == k + 1
             gate == N.gates[simulator.order[j]]
             from == {v \in OutputsOf(gate) : w \in simulator.aliases[v]}
             computed == Evaluated(gate, Inputs(after[j - 1], gate))
  <2>1. j \in 1 .. m /\ j \in 0 .. m /\ j - 1 = k
    BY <1>1
  <2>2. \A v \in Driven(simulator, j - 1) : after[j - 1][v] \in Bit
    BY <2>1
  <2> HIDE DEF after
  <2>3. Inputs(after[j - 1], gate) \in [DOMAIN gate.in -> Bit]
    BY <2>1, <2>2, DrivenOperands
  <2>4. computed \in [OutputsOf(gate) -> Bit]
    BY <1>1, <2>1, <2>3, GatesGiveBits
  <2>5. w \in simulator.wires
    BY DEF Driven
  <2>6. after[j][w] = IF from = {} THEN after[j - 1][w] ELSE computed[CHOOSE v \in from : TRUE]
    BY ZenonT(40), <2>1, <2>5, GateWrites DEF after
  <2>7. from = {} => w \in Driven(simulator, j - 1)
    <3>1. Driven(simulator, j) = Driven(simulator, j - 1)
            \cup (Copies(simulator.aliases, OutputsOf(gate)) \cap simulator.wires)
      BY <2>1, DrivenGrows
    <3> QED BY <3>1 DEF Copies
  <2>8. from \subseteq OutputsOf(gate)
    OBVIOUS
  <2> HIDE DEF from, computed, j
  <2>9. after[j][w] \in Bit
    BY <2>2, <2>4, <2>6, <2>7, <2>8
  <2> QED BY <2>1, <2>9 DEF j
<1> HIDE DEF Good
<1>4. 0 .. m \subseteq Good
  BY <1>1, <1>2, <1>3, Counting
<1> QED BY <1>4 DEF Good

\* What a simulation says of less known inputs it also says of these.
LEMMA SimulationSharpens ==
  ASSUME IsCompiled(simulator), NEW one, NEW other, GivesBits(one), GivesBits(other),
         \A w \in GivenWires(N) :
           Covers(Over(one, simulator.constants)[w], Over(other, simulator.constants)[w])
  PROVE  \A w \in simulator.wires :
           Covers(Simulated(simulator, one, NoneReplaced)[w], Simulated(simulator, other, NoneReplaced)[w])
<1> DEFINE left == Simulation(simulator, one, NoneReplaced)
           right == Simulation(simulator, other, NoneReplaced)
           m == Len(simulator.order)
           Good == {k \in 0 .. m : \A w \in simulator.wires : Covers(left[k][w], right[k][w])}
           a == Over(one, simulator.constants)
           b == Over(other, simulator.constants)
<1>1. /\ m \in Nat /\ N \in GivenNetlists
      /\ \A k \in 1 .. m : simulator.order[k] \in DOMAIN N.gates
  BY SMTT(40), CompiledTyped DEF N
<1>2. 0 \in Good
  <2> SUFFICES ASSUME NEW w \in simulator.wires PROVE Covers(left[0][w], right[0][w])
    BY <1>1
  <2> DEFINE from == {v \in GivenWires(N) : w \in simulator.aliases[v]}
  <2>1. DOMAIN a = GivenWires(N) /\ DOMAIN b = GivenWires(N)
    BY DEF GivesBits
  <2>2. left[0][w] = IF from = {} THEN NoValue ELSE a[CHOOSE v \in from : TRUE]
    BY SMTT(40), <2>1, GivenIsWritten
  <2>3. right[0][w] = IF from = {} THEN NoValue ELSE b[CHOOSE v \in from : TRUE]
    BY SMTT(40), <2>1, GivenIsWritten
  <2>4. \A v \in from : Covers(a[v], b[v])
    OBVIOUS
  <2> HIDE DEF left, right, a, b, from
  <2> QED BY <2>2, <2>3, <2>4 DEF Covers
<1>3. \A k \in 0 .. m - 1 : k \in Good => k + 1 \in Good
  <2> SUFFICES ASSUME NEW k \in 0 .. m - 1, k \in Good, NEW w \in simulator.wires
               PROVE  k + 1 \in 0 .. m /\ Covers(left[k + 1][w], right[k + 1][w])
    OBVIOUS
  <2> DEFINE j == k + 1
             g == simulator.order[j]
             gate == N.gates[g]
             from == {v \in OutputsOf(gate) : w \in simulator.aliases[v]}
             p == Inputs(left[j - 1], gate)
             q == Inputs(right[j - 1], gate)
  <2>1. j \in 1 .. m /\ j \in 0 .. m /\ j - 1 = k /\ j - 1 \in 0 .. m
    BY <1>1
  <2>2. \A v \in simulator.wires : Covers(left[j - 1][v], right[j - 1][v])
    BY <2>1
  <2>3. \A v \in Driven(simulator, j - 1) : left[j - 1][v] \in Bit /\ right[j - 1][v] \in Bit
    BY <2>1, DrivenAreBits
  <2> HIDE DEF left, right
  <2>4. p \in [DOMAIN gate.in -> Bit] /\ q \in [DOMAIN gate.in -> Bit]
    BY <2>1, <2>3, DrivenOperands
  <2>5. \A i \in DOMAIN gate.in : Covers(p[i], q[i])
    <3> SUFFICES ASSUME NEW i \in DOMAIN gate.in PROVE Covers(p[i], q[i])
      OBVIOUS
    <3>1. gate.in[i] \in Concrete \/ gate.in[i] \in simulator.wires
      <4>1. gate.in[i] \in ToSet(gate.in)
        BY DEF ToSet
      <4>2. g \in DOMAIN N.gates
        BY <1>1, <2>1
      <4>3. simulator.wires = Wires(N)
        BY CompiledTyped DEF N
      <4> QED BY <4>1, <4>2, <4>3, NamesAreWires
    <3>2. p[i] = ReadSimInput(left[j - 1], gate.in[i]) /\ q[i] = ReadSimInput(right[j - 1], gate.in[i])
      BY DEF Inputs
    <3> HIDE DEF p, q, gate, j
    <3> QED BY <2>2, <3>1, <3>2 DEF ReadSimInput, Covers
  <2>6. \A v \in OutputsOf(gate) : Covers(Evaluated(gate, p)[v], Evaluated(gate, q)[v])
    <3>1. g \in DOMAIN N.gates
      BY <1>1, <2>1
    <3> HIDE DEF p, q, g
    <3> QED BY <1>1, <2>4, <2>5, <3>1, GatesSharpen
  <2>7. left[j][w] = IF from = {} THEN left[j - 1][w] ELSE Evaluated(gate, p)[CHOOSE v \in from : TRUE]
    BY ONLY IsCompiled(simulator), <2>1, GateWrites DEF left, from, gate, p, j, m
  <2>8. right[j][w] = IF from = {} THEN right[j - 1][w] ELSE Evaluated(gate, q)[CHOOSE v \in from : TRUE]
    BY ONLY SMTT(40), IsCompiled(simulator), <2>1, GateWrites DEF right, from, gate, q, j, m
  <2>9. from \subseteq OutputsOf(gate)
    OBVIOUS
  <2>10. Covers(left[j][w], right[j][w])
    <3> HIDE DEF from, p, q, j, gate
    <3>1. CASE from = {}
      BY <2>2, <2>7, <2>8, <3>1
    <3>2. CASE from # {}
      <4>1. (CHOOSE v \in from : TRUE) \in OutputsOf(gate)
        BY <2>9, <3>2
      <4> QED BY <2>6, <2>7, <2>8, <3>2, <4>1
    <3> QED BY <3>1, <3>2
  <2> QED BY <2>1, <2>10 DEF j
<1> HIDE DEF Good
<1>4. 0 .. m \subseteq Good
  BY <1>1, <1>2, <1>3, Counting
<1>5. m \in Good
  BY <1>1, <1>4
<1> QED BY <1>5 DEF Good, Simulated

\* The outputs and the wires read by the gate at a place of the order.
Out(s, j) == OutputsOf(s.netlist.gates[s.order[j]])
In(s, j) == ToSet(s.netlist.gates[s.order[j]].in) \ Concrete

\* No wire is written twice, and none after it was read.
OneDriver(s, given) ==
  LET places == 1 .. Len(s.order)
  IN  /\ Len(s.order) \in Nat
      /\ \A j \in places : /\ Copies(s.aliases, Out(s, j)) \cap Copies(s.aliases, given) = {}
                           /\ In(s, j) \subseteq s.wires
                           /\ \A v, w \in Out(s, j) : v # w => s.aliases[v] \cap s.aliases[w] = {}
      /\ \A i, j \in places : i < j => Copies(s.aliases, Out(s, i)) \cap Copies(s.aliases, Out(s, j)) = {}
      /\ \A i, j \in places : i <= j => In(s, i) \cap Copies(s.aliases, Out(s, j)) = {}

\* A wire that no later gate writes keeps its value.
LEMMA UnwrittenStays ==
  ASSUME NEW s, Len(s.order) \in Nat, NEW given, NEW k \in 0 .. Len(s.order), NEW w \in s.wires,
         \A j \in k + 1 .. Len(s.order) : w \notin Copies(s.aliases, Out(s, j))
  PROVE  Simulated(s, given, NoneReplaced)[w] = Simulation(s, given, NoneReplaced)[k][w]
<1> DEFINE after == Simulation(s, given, NoneReplaced)
           m == Len(s.order)
           Good == {d \in 0 .. m - k : after[k + d][w] = after[k][w]}
<1>1. m \in Nat /\ k \in Nat /\ m - k \in Nat /\ k + 0 = k /\ k + (m - k) = m
  OBVIOUS
<1>2. 0 \in Good
  BY <1>1
<1>3. \A d \in 0 .. (m - k) - 1 : d \in Good => d + 1 \in Good
  <2> SUFFICES ASSUME NEW d \in 0 .. (m - k) - 1, d \in Good PROVE d + 1 \in Good
    OBVIOUS
  <2> DEFINE j == k + (d + 1)
             values == Written(s, after[j - 1], s.order[j], NoneReplaced)
  <2>1. j \in 1 .. m /\ j \in k + 1 .. m /\ j - 1 = k + d /\ d + 1 \in 0 .. m - k
    <3> HIDE DEF Good, m
    <3>1. d \in Nat /\ d <= (m - k) - 1
      BY <1>1
    <3>2. j \in Nat /\ j >= 1 /\ j <= m /\ j >= k + 1
      BY <1>1, <3>1
    <3> QED BY <1>1, <3>1, <3>2
  <2>2. after[j] = WriteWithAliases(s, after[j - 1], values)
    BY <2>1, SimulationFollows
  <2>3. DOMAIN values = Out(s, j)
    BY DEF Written, NoneReplaced, Evaluated, Out
  <2> HIDE DEF after, values
  <2>4. {v \in DOMAIN values : w \in s.aliases[v]} = {}
    BY <2>1, <2>3 DEF Copies
  <2>5. after[j][w] = after[j - 1][w]
    BY <2>2, <2>4 DEF WriteWithAliases
  <2> HIDE DEF j
  <2>6. after[k + d][w] = after[k][w]
    OBVIOUS
  <2>7. after[j][w] = after[k][w]
    BY <2>1, <2>5, <2>6
  <2> QED BY <2>1, <2>7 DEF j
<1> HIDE DEF Good
<1>4. 0 .. m - k \subseteq Good
  BY <1>1, <1>2, <1>3, Counting
<1>5. m - k \in Good
  BY <1>1, <1>4
<1> HIDE DEF after
<1>6. after[m][w] = after[k][w]
  BY <1>1, <1>5 DEF Good
<1> QED BY <1>6 DEF Simulated, after

\* The wires settle: in the end each has what was given, or what its gate makes of
\* the inputs as they are in the end.
LEMMA WiresSettle ==
  ASSUME NEW s, NEW given, OneDriver(s, DOMAIN Over(given, s.constants))
  PROVE  LET values == Over(given, s.constants)
             final == Simulated(s, given, NoneReplaced)
         IN  /\ \A w \in s.wires \cap Copies(s.aliases, DOMAIN values) :
                  final[w] = values[CHOOSE v \in {u \in DOMAIN values : w \in s.aliases[u]} : TRUE]
             /\ \A j \in 1 .. Len(s.order) : \A v \in Out(s, j) : \A w \in s.aliases[v] \cap s.wires :
                  LET gate == s.netlist.gates[s.order[j]]
                  IN  final[w] = Evaluated(gate, Inputs(final, gate))[v]
<1> DEFINE values == Over(given, s.constants)
           after == Simulation(s, given, NoneReplaced)
           final == Simulated(s, given, NoneReplaced)
           m == Len(s.order)
<1>1. m \in Nat
  BY DEF OneDriver
<1>2. ASSUME NEW w \in s.wires \cap Copies(s.aliases, DOMAIN values)
      PROVE  final[w] = values[CHOOSE v \in {u \in DOMAIN values : w \in s.aliases[u]} : TRUE]
  <2>1. \A j \in 0 + 1 .. m : w \notin Copies(s.aliases, Out(s, j))
    BY <1>1 DEF OneDriver
  <2>2. final[w] = after[0][w]
    BY <1>1, <2>1, UnwrittenStays
  <2>3. after[0] = WriteWithAliases(s, Unwritten(s), values)
    BY <1>1, SimulationFollows
  <2> HIDE DEF after, values, final
  <2>4. {u \in DOMAIN values : w \in s.aliases[u]} # {}
    BY DEF Copies
  <2> QED BY <2>2, <2>3, <2>4 DEF WriteWithAliases
<1>3. ASSUME NEW j \in 1 .. m, NEW v \in Out(s, j), NEW w \in s.aliases[v] \cap s.wires
      PROVE  LET gate == s.netlist.gates[s.order[j]]
             IN  final[w] = Evaluated(gate, Inputs(final, gate))[v]
  <2> DEFINE gate == s.netlist.gates[s.order[j]]
             written == Written(s, after[j - 1], s.order[j], NoneReplaced)
  <2>1. w \in Copies(s.aliases, Out(s, j))
    BY DEF Copies
  <2>2. \A i \in j + 1 .. m : w \notin Copies(s.aliases, Out(s, i))
    <3>1. \A i \in j + 1 .. m : i \in 1 .. m /\ j < i
      BY <1>1
    <3> QED BY <2>1, <3>1 DEF OneDriver
  <2>3. j \in 0 .. m /\ j - 1 \in 0 .. m /\ (j - 1) + 1 = j
    BY <1>1
  <2>4. final[w] = after[j][w]
    BY <1>1, <2>2, <2>3, UnwrittenStays
  <2>5. after[j] = WriteWithAliases(s, after[j - 1], written)
    BY <1>1, SimulationFollows
  <2>6. written = Evaluated(gate, Inputs(after[j - 1], gate))
    BY DEF Written, NoneReplaced
  <2>7. DOMAIN written = Out(s, j)
    BY <2>6 DEF Evaluated, Out
  <2>8. {u \in DOMAIN written : w \in s.aliases[u]} = {v}
    <3>1. \A u \in Out(s, j) : u # v => w \notin s.aliases[u]
      BY DEF OneDriver
    <3> HIDE DEF written
    <3> QED BY <2>7, <3>1
  <2>9. after[j][w] = written[v]
    <3>1. (CHOOSE u \in {v} : TRUE) = v
      OBVIOUS
    <3> HIDE DEF written, after
    <3> QED BY <2>5, <2>8, <3>1 DEF WriteWithAliases
  <2>10. Inputs(after[j - 1], gate) = Inputs(final, gate)
    <3> SUFFICES ASSUME NEW i \in DOMAIN gate.in
                 PROVE  ReadSimInput(after[j - 1], gate.in[i]) = ReadSimInput(final, gate.in[i])
      BY DEF Inputs
    <3>1. CASE gate.in[i] \in Concrete
      BY <3>1 DEF ReadSimInput
    <3>2. CASE gate.in[i] \notin Concrete
      <4> DEFINE u == gate.in[i]
      <4>1. u \in In(s, j)
        BY <3>2 DEF In, ToSet
      <4>2. u \in s.wires
        BY <4>1 DEF OneDriver
      <4>3. \A k \in (j - 1) + 1 .. m : u \notin Copies(s.aliases, Out(s, k))
        <5>1. \A k \in j .. m : k \in 1 .. m /\ j <= k
          BY <1>1
        <5> QED BY <2>3, <4>1, <5>1 DEF OneDriver
      <4> HIDE DEF u, gate, written
      <4>4. final[u] = after[j - 1][u]
        BY <1>1, <2>3, <4>2, <4>3, UnwrittenStays
      <4> QED BY <3>2, <4>4 DEF ReadSimInput, u
    <3> QED BY <3>1, <3>2
  <2> HIDE DEF after, final, gate
  <2> QED BY <2>4, <2>6, <2>9, <2>10 DEF gate
<1> QED BY <1>2, <1>3

------------------------------------------------------------------------------
(* The netlist that is written. *)

\* The netlist that is written, the constants, and the wires tied to each.
ReducedNetlist == CommentedGatelist(Optimization)
TieValue(o) == IF isStatic[o] THEN staticValues[o] ELSE "0"
TiesAreConstant == \A o \in GateOutputs : TieValue(o) \in Concrete
Tied(c) ==
  {w \in simulator.wires :
     \E g \in RemovableGates : w \in OutputsOf(N.gates[g]) /\ TieValue(<<g, w>>) = c}

\* What the netlist written has of the original.
LEMMA ReducedParts ==
  /\ ReducedNetlist.inst = N.inst /\ ReducedNetlist.others = N.others
  /\ ReducedNetlist.outputs = N.outputs /\ ReducedNetlist.flops = N.flops
  /\ ReducedNetlist.assigns
       = N.assigns \cup {[lhs |-> o[2], rhs |-> TieValue(o)] : o \in {p \in GateOutputs : p[1] \in RemovableGates}}
  /\ DOMAIN ReducedNetlist.gates = Gates \ RemovableGates
  /\ \A g \in Gates \ RemovableGates : ReducedNetlist.gates[g] = N.gates[g]
BY DEF ReducedNetlist, CommentedGatelist, Optimization, TieValue

\* Removed are gates, so what is tied are outputs of gates.
LEMMA RemovedAreGates ==
  ASSUME IsCompiled(simulator)
  PROVE  RemovableGates \subseteq Gates
BY UnobservableAreGates DEF RemovableGates, StaticGates

\* What is assigned in the netlist written, besides what was.
LEMMA TiesAssign ==
  ASSUME IsCompiled(simulator), TiesAreConstant
  PROVE  /\ \A c \in Concrete : Assigned(ReducedNetlist, c) = Assigned(N, c) \cup Tied(c)
         /\ \A w \in Wires(N) : Assigned(ReducedNetlist, w) = Assigned(N, w)
         /\ {a.lhs : a \in ReducedNetlist.assigns}
              = {a.lhs : a \in N.assigns} \cup Tied("0") \cup Tied("1")
         /\ {a.rhs : a \in ReducedNetlist.assigns} \ Concrete = {a.rhs : a \in N.assigns} \ Concrete
<1> DEFINE replaced == {p \in GateOutputs : p[1] \in RemovableGates}
           Tie(o) == [lhs |-> o[2], rhs |-> TieValue(o)]
           ties == {Tie(o) : o \in replaced}
<1>1. ReducedNetlist.assigns = N.assigns \cup ties
  BY ReducedParts
<1>2. \A a \in ties : a.rhs \in Concrete /\ a.lhs \in Tied(a.rhs)
  <2> SUFFICES ASSUME NEW o \in replaced
               PROVE  Tie(o).rhs \in Concrete /\ Tie(o).lhs \in Tied(Tie(o).rhs)
    OBVIOUS
  <2>1. o \in Gates \X simulator.wires /\ o[2] \in OutputsOf(N.gates[o[1]]) /\ o[1] \in RemovableGates
    BY DEF GateOutputs
  <2>2. o = <<o[1], o[2]>>
    BY <2>1
  <2>3. Tie(o).lhs = o[2] /\ Tie(o).rhs = TieValue(<<o[1], o[2]>>)
    BY <2>2
  <2>4. TieValue(o) \in Concrete
    BY DEF TiesAreConstant
  <2> HIDE DEF Tie
  <2> QED BY <2>1, <2>2, <2>3, <2>4 DEF Tied
<1>3. \A c : \A w \in Tied(c) : \E a \in ties : a.lhs = w /\ a.rhs = c
  <2> SUFFICES ASSUME NEW c, NEW w \in Tied(c) PROVE \E a \in ties : a.lhs = w /\ a.rhs = c
    OBVIOUS
  <2>1. PICK g \in RemovableGates : w \in OutputsOf(N.gates[g]) /\ TieValue(<<g, w>>) = c
    BY DEF Tied
  <2>2. w \in simulator.wires
    BY DEF Tied
  <2>3. <<g, w>> \in replaced
    BY <2>1, <2>2, RemovedAreGates DEF GateOutputs
  <2>4. Tie(<<g, w>>) \in ties
    BY <2>3
  <2>5. Tie(<<g, w>>).lhs = w /\ Tie(<<g, w>>).rhs = c
    BY <2>1
  <2> QED BY <2>4, <2>5
<1> HIDE DEF ties
<1>4. \A c \in Concrete : Assigned(ReducedNetlist, c) = Assigned(N, c) \cup Tied(c)
  <2> SUFFICES ASSUME NEW c \in Concrete
               PROVE  Assigned(ReducedNetlist, c) = Assigned(N, c) \cup Tied(c)
    OBVIOUS
  <2>1. {a.lhs : a \in {b \in ties : b.rhs = c}} = Tied(c)
    BY <1>2, <1>3
  <2> QED BY <1>1, <2>1 DEF Assigned
<1>5. \A w \in Wires(N) : Assigned(ReducedNetlist, w) = Assigned(N, w)
  <2>1. N \in GivenNetlists
    BY CompiledTyped DEF N
  <2>2. Wires(N) \cap Concrete = {}
    BY <2>1, GateUsageAssumption DEF WellFormed
  <2>3. \A w \in Wires(N) : {b \in ties : b.rhs = w} = {}
    BY <1>2, <2>2
  <2> QED BY <1>1, <2>3 DEF Assigned
<1>6. {a.lhs : a \in ReducedNetlist.assigns}
        = {a.lhs : a \in N.assigns} \cup Tied("0") \cup Tied("1")
  <2>1. {a.lhs : a \in ties} = Tied("0") \cup Tied("1")
    BY <1>2, <1>3 DEF Concrete
  <2> QED BY <1>1, <2>1
<1>7. {a.rhs : a \in ReducedNetlist.assigns} \ Concrete = {a.rhs : a \in N.assigns} \ Concrete
  BY <1>1, <1>2
<1> QED BY <1>4, <1>5, <1>6, <1>7

\* A copy of a wire or constant is that wire itself or assigned to.
LEMMA CopiesAreAssigned ==
  ASSUME NEW n, IsFiniteSet(Wires(n)), NEW s \in Sources(n), NEW w \in AliasMap(n)[s]
  PROVE  w = s \/ w \in {a.lhs : a \in n.assigns}
<1> DEFINE lhs == {a.lhs : a \in n.assigns}
           map == [t \in Sources(n) |-> ({t} \ Concrete) \cup lhs]
<1>1. lhs \subseteq Wires(n) /\ \A t : Assigned(n, t) \subseteq lhs
  BY DEF Wires, Assigned
<1>2. IsClosed(n, map)
  <2>1. \A t \in Sources(n) : ({t} \ Concrete) \cup lhs \subseteq Wires(n)
    BY <1>1 DEF Sources
  <2>2. map \in [Sources(n) -> SUBSET Wires(n)]
    BY <2>1
  <2>3. \A t \in Sources(n) : SingleAliases(n)[t] \subseteq map[t]
    BY <1>1 DEF SingleAliases
  <2>4. \A t \in Sources(n) : \A d \in map[t] : map[d] \subseteq map[t]
    <3>1. \A t \in Sources(n) : \A d \in map[t] : d \in Sources(n)
      BY <2>2 DEF Sources
    <3> QED BY <3>1
  <2> QED BY <2>2, <2>3, <2>4 DEF IsClosed
<1>3. AliasMap(n)[s] \subseteq map[s]
  BY <1>2, AliasesAreLeast
<1> QED BY <1>3

\* The outputs of removed gates are tied to one constant or the other.
LEMMA RemovedAreTied ==
  ASSUME IsCompiled(simulator), TiesAreConstant
  PROVE  UNION {OutputsOf(N.gates[g]) : g \in RemovableGates} = Tied("0") \cup Tied("1")
<1>1. simulator.wires = Wires(N)
  BY CompiledTyped DEF N
<1>2. \A g \in RemovableGates : \A w \in OutputsOf(N.gates[g]) : w \in Tied(TieValue(<<g, w>>)) /\ <<g, w>> \in GateOutputs
  <2> SUFFICES ASSUME NEW g \in RemovableGates, NEW w \in OutputsOf(N.gates[g])
               PROVE  w \in Tied(TieValue(<<g, w>>)) /\ <<g, w>> \in GateOutputs
    OBVIOUS
  <2>1. g \in Gates /\ w \in simulator.wires
    BY <1>1, RemovedAreGates, NamesAreWires DEF Gates
  <2> QED BY <2>1 DEF Tied, GateOutputs
<1>3. \A g \in RemovableGates : \A w \in OutputsOf(N.gates[g]) : w \in Tied("0") \cup Tied("1")
  BY <1>2 DEF TiesAreConstant, Concrete
<1>4. \A c : Tied(c) \subseteq UNION {OutputsOf(N.gates[g]) : g \in RemovableGates}
  BY DEF Tied
<1> QED BY <1>3, <1>4

\* No wire is lost or made.
LEMMA ReducedWires ==
  ASSUME IsCompiled(simulator), TiesAreConstant
  PROVE  Wires(ReducedNetlist) = Wires(N)
<1> DEFINE R == ReducedNetlist
           lhs == {a.lhs : a \in N.assigns}
           A == AliasMap(N)
           base(n) == ToSet(n.inst) \cup n.others \cup n.outputs
                        \cup SequentialOutputWires(n) \cup SequentialInputWires(n)
           of(n, g) == OutputsOf(n.gates[g]) \cup (ToSet(n.gates[g].in) \ Concrete)
<1>1. /\ simulator.wires = Wires(N) /\ WellFormed(N) /\ WellDriven(N) /\ N \in GivenNetlists
  BY CompiledTyped, GateUsageAssumption DEF N
<1>2. RemovableGates \subseteq Gates /\ Gates = DOMAIN N.gates
  BY RemovedAreGates DEF Gates
<1>3. base(R) = base(N)
  BY ReducedParts DEF SequentialOutputWires, SequentialInputWires
<1>4. /\ {a.lhs : a \in R.assigns} = lhs \cup Tied("0") \cup Tied("1")
      /\ {a.rhs : a \in R.assigns} \ Concrete = {a.rhs : a \in N.assigns} \ Concrete
  BY TiesAssign
<1>5. \A g \in Gates \ RemovableGates : of(R, g) = of(N, g)
  BY ReducedParts
<1>6. DOMAIN R.gates = Gates \ RemovableGates
  BY ReducedParts
<1>7. Wires(N) = base(N) \cup lhs \cup ({a.rhs : a \in N.assigns} \ Concrete) \cup (UNION {of(N, g) : g \in Gates})
  BY <1>2 DEF Wires
<1>8. Wires(R) = base(R) \cup {a.lhs : a \in R.assigns} \cup ({a.rhs : a \in R.assigns} \ Concrete)
                   \cup (UNION {of(R, g) : g \in DOMAIN R.gates})
  BY DEF Wires
<1>9. UNION {OutputsOf(N.gates[g]) : g \in RemovableGates} = Tied("0") \cup Tied("1")
  BY RemovedAreTied
<1>10. Tied("0") \cup Tied("1") \subseteq Wires(N)
  BY <1>1 DEF Tied
<1> HIDE DEF R
<1>11. \A g \in DOMAIN R.gates : of(R, g) = of(N, g)
  BY <1>5, <1>6
<1> HIDE DEF of, base
<1>12. UNION {of(R, g) : g \in DOMAIN R.gates} = UNION {of(N, g) : g \in Gates \ RemovableGates}
  BY <1>6, <1>11
<1>13. Wires(R) \subseteq Wires(N)
  BY <1>3, <1>4, <1>7, <1>8, <1>10, <1>12
<1>14. \A w \in GivenWires(N) : w \in base(N) \cup lhs
  <2>1. \A c \in Concrete : \A w \in A[c] : w \in lhs
    <3> SUFFICES ASSUME NEW c \in Concrete, NEW w \in A[c] PROVE w \in lhs
      OBVIOUS
    <3>1. c \in Sources(N) /\ IsFiniteSet(Wires(N))
      BY <1>1 DEF Sources, WellFormed
    <3>2. w = c \/ w \in lhs
      BY <3>1, CopiesAreAssigned
    <3>3. w \in Wires(N)
      BY <3>1, AliasesKept DEF Sources
    <3> QED BY <1>1, <3>2, <3>3 DEF WellFormed
  <2> QED BY <2>1 DEF GivenWires, base, Concrete
<1>15. ASSUME NEW v \in Wires(N), NEW w \in A[v] PROVE w = v \/ w \in lhs
  BY <1>1, CopiesAreAssigned DEF Sources, WellFormed
<1>16. ASSUME NEW g \in Gates, NEW w \in ToSet(N.gates[g].in) \ Concrete
       PROVE  w \in Wires(R)
  <2>1. w \in Copies(A, GivenWires(N)) \/ \E h \in Gates : w \in Copies(A, OutputsOf(N.gates[h]))
    BY <1>1, <1>2 DEF WellDriven
  <2>2. CASE w \in Copies(A, GivenWires(N))
    <3>1. PICK v \in GivenWires(N) : w \in A[v]
      BY <2>2 DEF Copies
    <3>2. v \in Wires(N)
      BY <1>1, GivenAreWires
    <3>3. w \in base(N) \cup lhs
      BY <1>14, <1>15, <3>1, <3>2
    <3> QED BY <1>3, <1>4, <1>8, <3>3
  <2>3. CASE \E h \in Gates : w \in Copies(A, OutputsOf(N.gates[h]))
    <3>1. PICK h \in Gates : w \in Copies(A, OutputsOf(N.gates[h]))
      BY <2>3
    <3>2. PICK v \in OutputsOf(N.gates[h]) : w \in A[v]
      BY <3>1 DEF Copies
    <3>3. v \in Wires(N)
      BY <1>2, NamesAreWires
    <3>4. w = v \/ w \in lhs
      BY <1>15, <3>2, <3>3
    <3>5. v \in of(N, h)
      BY DEF of
    <3>6. CASE h \in RemovableGates
      <4>1. v \in Tied("0") \cup Tied("1")
        BY <1>9, <3>6
      <4> QED BY <1>4, <1>8, <3>4, <4>1
    <3>7. CASE h \notin RemovableGates
      <4>1. v \in UNION {of(R, k) : k \in DOMAIN R.gates}
        BY <1>12, <3>5, <3>7
      <4> QED BY <1>4, <1>8, <3>4, <4>1
    <3> QED BY <3>6, <3>7
  <2> QED BY <2>1, <2>2, <2>3
<1>17. \A g \in Gates : of(N, g) \subseteq Wires(R)
  <2> SUFFICES ASSUME NEW g \in Gates PROVE of(N, g) \subseteq Wires(R)
    OBVIOUS
  <2>1. ToSet(N.gates[g].in) \ Concrete \subseteq Wires(R)
    BY <1>16
  <2>2. CASE g \in RemovableGates
    <3>1. OutputsOf(N.gates[g]) \subseteq Tied("0") \cup Tied("1")
      BY <1>9, <2>2
    <3>2. OutputsOf(N.gates[g]) \subseteq Wires(R)
      BY <1>4, <1>8, <3>1
    <3> QED BY <2>1, <3>2 DEF of
  <2>3. CASE g \notin RemovableGates
    <3>1. of(N, g) \subseteq UNION {of(R, k) : k \in DOMAIN R.gates}
      BY <1>12, <2>3
    <3> QED BY <1>8, <3>1
  <2> QED BY <2>2, <2>3
<1>18. Wires(N) \subseteq Wires(R)
  BY ZenonT(40), <1>3, <1>4, <1>7, <1>8, <1>17
<1>19. Wires(R) = Wires(N)
  BY <1>13, <1>18
<1> QED BY <1>19 DEF R

\* Wires are copied as before; the constants also to what is tied to them.
LEMMA ReducedAliases ==
  ASSUME IsCompiled(simulator), TiesAreConstant
  PROVE  /\ \A w \in Wires(N) : AliasMap(ReducedNetlist)[w] = AliasMap(N)[w]
         /\ \A c \in Concrete :
              AliasMap(ReducedNetlist)[c] = AliasMap(N)[c] \cup Copies(AliasMap(N), Tied(c))
<1> DEFINE R == ReducedNetlist
           A == AliasMap(N)
           B == AliasMap(R)
           map == [s \in Sources(N) |-> IF s \in Concrete THEN A[s] \cup Copies(A, Tied(s)) ELSE A[s]]
<1>1. /\ simulator.wires = Wires(N) /\ IsFiniteSet(Wires(N)) /\ Wires(N) \cap Concrete = {}
  BY CompiledTyped, GateUsageAssumption DEF N, WellFormed
<1>2. Wires(R) = Wires(N)
  BY ReducedWires
<1>3. Sources(R) = Sources(N)
  BY <1>2 DEF Sources
<1>4. /\ \A c \in Concrete : Assigned(R, c) = Assigned(N, c) \cup Tied(c)
      /\ \A w \in Wires(N) : Assigned(R, w) = Assigned(N, w)
  BY TiesAssign
<1>5. /\ \A c \in Concrete : SingleAliases(R)[c] = SingleAliases(N)[c] \cup Tied(c)
      /\ \A w \in Wires(N) : SingleAliases(R)[w] = SingleAliases(N)[w]
  BY <1>3, <1>4 DEF SingleAliases, Sources
<1>6. /\ IsClosed(N, A) /\ \A other : IsClosed(N, other) => \A s \in Sources(N) : A[s] \subseteq other[s]
  BY <1>1, AliasesAreLeast
<1>7. /\ IsClosed(R, B) /\ \A other : IsClosed(R, other) => \A s \in Sources(R) : B[s] \subseteq other[s]
  BY <1>1, <1>2, AliasesAreLeast
<1>8. \A w \in Wires(N) : w \in A[w]
  BY <1>1, AliasesKept
<1>9. \A c : Tied(c) \subseteq Wires(N)
  BY <1>1 DEF Tied
<1> HIDE DEF A, B, R
<1>10. \A s \in Sources(N) : s \in Wires(N) \/ s \in Concrete
  BY DEF Sources
<1>11. /\ A \in [Sources(N) -> SUBSET Wires(N)]
       /\ \A s \in Sources(N) : SingleAliases(N)[s] \subseteq A[s]
       /\ \A s \in Sources(N) : \A d \in A[s] : A[d] \subseteq A[s]
  BY <1>6 DEF IsClosed
<1>12. Wires(N) \subseteq Sources(N) /\ Concrete \subseteq Sources(N)
  BY DEF Sources
<1>13. \A c : Copies(A, Tied(c)) \subseteq Wires(N) /\ Tied(c) \subseteq Copies(A, Tied(c))
  BY <1>8, <1>9, <1>11, <1>12 DEF Copies
<1>14. IsClosed(R, map)
  <2>1. map \in [Sources(R) -> SUBSET Wires(R)]
    BY <1>2, <1>3, <1>11, <1>13
  <2>2. \A w \in Wires(N) : map[w] = A[w]
    BY <1>1, <1>12
  <2>3. \A c \in Concrete : map[c] = A[c] \cup Copies(A, Tied(c))
    BY <1>12
  <2>4. \A s \in Sources(R) : SingleAliases(R)[s] \subseteq map[s]
    BY <1>3, <1>5, <1>10, <1>11, <1>12, <1>13, <2>2, <2>3
  <2>5. \A s \in Sources(R) : \A d \in map[s] : map[d] \subseteq map[s]
    <3> SUFFICES ASSUME NEW s \in Sources(N), NEW d \in map[s] PROVE map[d] \subseteq map[s]
      BY <1>3
    <3>1. d \in Wires(N) /\ map[d] = A[d]
      BY <1>2, <1>3, <2>1, <2>2
    <3> HIDE DEF map
    <3>2. CASE s \in Wires(N)
      BY <1>11, <1>12, <2>2, <3>1, <3>2
    <3>3. CASE s \in Concrete
      <4>1. CASE d \in A[s]
        BY <1>11, <2>3, <3>1, <3>3, <4>1
      <4>2. CASE d \in Copies(A, Tied(s))
        <5>1. PICK t \in Tied(s) : d \in A[t]
          BY <4>2 DEF Copies
        <5>2. A[d] \subseteq A[t]
          BY <1>9, <1>11, <1>12, <5>1
        <5>3. A[t] \subseteq Copies(A, Tied(s))
          BY <5>1 DEF Copies
        <5> QED BY <2>3, <3>1, <3>3, <5>2, <5>3
      <4> QED BY <2>3, <3>3, <4>1, <4>2
    <3> QED BY <1>10, <3>2, <3>3
  <2> HIDE DEF map
  <2> QED BY <2>1, <2>4, <2>5 DEF IsClosed
<1>15. \A s \in Sources(N) : B[s] \subseteq map[s]
  BY <1>3, <1>7, <1>14
<1>16. \A s \in Sources(N) : A[s] \subseteq B[s]
  <2>1. IsClosed(N, B)
    BY <1>2, <1>3, <1>5, <1>7, <1>10 DEF IsClosed
  <2> QED BY <1>6, <2>1
<1>17. \A c \in Concrete : Copies(A, Tied(c)) \subseteq B[c]
  <2> SUFFICES ASSUME NEW c \in Concrete, NEW t \in Tied(c) PROVE A[t] \subseteq B[c]
    BY DEF Copies
  <2>1. t \in B[c]
    BY <1>3, <1>5, <1>7, <1>12 DEF IsClosed
  <2>2. B[t] \subseteq B[c]
    BY <1>3, <1>7, <1>12, <2>1 DEF IsClosed
  <2>3. A[t] \subseteq B[t]
    BY <1>9, <1>12, <1>16
  <2> QED BY <2>2, <2>3
<1>18. \A w \in Wires(N) : B[w] = A[w]
  BY <1>1, <1>12, <1>15, <1>16
<1>19. \A c \in Concrete : B[c] = A[c] \cup Copies(A, Tied(c))
  BY <1>12, <1>15, <1>16, <1>17
<1> QED BY <1>18, <1>19 DEF A, B, R

\* What is given before any gate is simulated.
LEMMA ReducedGiven ==
  ASSUME IsCompiled(simulator), TiesAreConstant
  PROVE  GivenWires(ReducedNetlist)
           = GivenWires(N) \cup Copies(AliasMap(N), Tied("0") \cup Tied("1"))
<1>1. /\ AliasMap(ReducedNetlist)["0"] = AliasMap(N)["0"] \cup Copies(AliasMap(N), Tied("0"))
      /\ AliasMap(ReducedNetlist)["1"] = AliasMap(N)["1"] \cup Copies(AliasMap(N), Tied("1"))
  BY ReducedAliases DEF Concrete
<1>2. Copies(AliasMap(N), Tied("0") \cup Tied("1"))
        = Copies(AliasMap(N), Tied("0")) \cup Copies(AliasMap(N), Tied("1"))
  BY DEF Copies
<1>3. SequentialOutputWires(ReducedNetlist) = SequentialOutputWires(N)
  BY ReducedParts DEF SequentialOutputWires
<1> QED BY <1>1, <1>2, <1>3, ReducedParts DEF GivenWires

\* The netlist that is written was compiled, its gates in some order.
IsReduced(s) == \E order \in SortedOrders(ReducedNetlist) : s = Compiled(ReducedNetlist, order)

\* What it compiles to has the wires and copies of the original and the gates kept.
LEMMA ReducedTyped ==
  ASSUME IsCompiled(simulator), TiesAreConstant, NEW s, IsReduced(s)
  PROVE  /\ s.netlist = ReducedNetlist
         /\ s.wires = simulator.wires /\ s.aliases = simulator.aliases
         /\ s.constants = ConstantWrites(AliasMap(ReducedNetlist))
         /\ s.order \in Seq(Gates \ RemovableGates)
         /\ \A g \in Gates \ RemovableGates : \E j \in 1 .. Len(s.order) : s.order[j] = g
         /\ \A i, j \in 1 .. Len(s.order) : i # j => s.order[i] # s.order[j]
         /\ \A i, j \in 1 .. Len(s.order) : i < j => ~Feeds(N, AliasMap(N), s.order[j], s.order[i])
<1> DEFINE R == ReducedNetlist
<1>1. PICK order \in SortedOrders(R) : s = Compiled(R, order)
  BY DEF IsReduced
<1>2. /\ s.netlist = R /\ s.wires = Wires(R) /\ s.aliases = AliasWires(R, AliasMap(R))
      /\ s.order = order /\ s.constants = ConstantWrites(AliasMap(R))
  BY <1>1 DEF Compiled
<1>3. /\ DOMAIN R.gates = Gates \ RemovableGates /\ \A g \in Gates \ RemovableGates : R.gates[g] = N.gates[g]
  BY ReducedParts
<1>4. /\ simulator.wires = Wires(N) /\ WellFormed(N)
      /\ simulator.aliases \in [simulator.wires -> SUBSET simulator.wires]
      /\ \A w \in simulator.wires : simulator.aliases[w] = AliasMap(N)[w]
  BY CompiledTyped, GateUsageAssumption DEF N
<1>5. Wires(R) = Wires(N) /\ \A w \in Wires(N) : AliasMap(R)[w] = AliasMap(N)[w]
  BY ReducedWires, ReducedAliases
<1>6. s.aliases = simulator.aliases
  BY <1>2, <1>4, <1>5 DEF AliasWires
<1>7. IsFiniteSet(DOMAIN R.gates)
  BY <1>3, <1>4, FS_Subset DEF WellFormed, Gates
<1>8. /\ order \in Seq(DOMAIN R.gates)
      /\ \A g \in DOMAIN R.gates : \E j \in 1 .. Len(order) : order[j] = g
      /\ \A i, j \in 1 .. Len(order) : i # j => order[i] # order[j]
      /\ \A i, j \in 1 .. Len(order) : i < j => ~Feeds(R, AliasMap(R), order[j], order[i])
  BY <1>7, OrdersTyped
<1>9. ASSUME NEW g \in Gates \ RemovableGates, NEW h \in Gates \ RemovableGates
      PROVE  Feeds(R, AliasMap(R), g, h) <=> Feeds(N, AliasMap(N), g, h)
  <2>1. OutputsOf(N.gates[g]) \subseteq Wires(N)
    BY NamesAreWires DEF Gates
  <2> QED BY <1>3, <1>5, <2>1 DEF Feeds
<1>10. \A j \in 1 .. Len(order) : order[j] \in Gates \ RemovableGates
  BY <1>3, <1>8
<1>11. \A i, j \in 1 .. Len(order) : i < j => ~Feeds(N, AliasMap(N), order[j], order[i])
  BY ONLY <1>8, <1>9, <1>10
<1>12. /\ order \in Seq(Gates \ RemovableGates)
       /\ \A g \in Gates \ RemovableGates : \E j \in 1 .. Len(order) : order[j] = g
  BY ONLY <1>3, <1>8
<1>13. s.wires = simulator.wires
  BY <1>2, <1>4, <1>5
<1> QED BY ONLY ZenonT(40), <1>2, <1>6, <1>8, <1>11, <1>12, <1>13

\* What is given of the reduced netlist is not driven by the gates it has.
LEMMA GivenIsApart ==
  ASSUME IsCompiled(simulator), TiesAreConstant
  PROVE  /\ \A g \in Gates : Copies(simulator.aliases, OutputsOf(N.gates[g]))
                               \cap Copies(simulator.aliases, GivenWires(N)) = {}
         /\ \A g \in Gates \ RemovableGates :
              Copies(simulator.aliases, OutputsOf(N.gates[g]))
                \cap Copies(simulator.aliases, GivenWires(ReducedNetlist)) = {}
         /\ GivenWires(N) \subseteq simulator.wires /\ GivenWires(ReducedNetlist) \subseteq simulator.wires
<1> DEFINE A == AliasMap(N)
           T == Tied("0") \cup Tied("1")
           B == simulator.aliases
<1>1. /\ simulator.wires = Wires(N) /\ WellFormed(N) /\ WellDriven(N)
      /\ B \in [simulator.wires -> SUBSET simulator.wires]
      /\ \A w \in simulator.wires : B[w] = A[w]
  BY CompiledTyped, GateUsageAssumption DEF N
<1>2. \A v \in Wires(N) : \A w \in A[v] : A[w] \subseteq A[v]
  BY <1>1, AliasesKept DEF WellFormed
<1>3. GivenWires(N) \subseteq simulator.wires
  BY <1>1, GivenAreWires
<1>4. T \subseteq simulator.wires
  BY DEF Tied
<1>5. \A wires \in SUBSET simulator.wires : Copies(B, wires) = Copies(A, wires)
  BY <1>1 DEF Copies
<1>6. GivenWires(ReducedNetlist) = GivenWires(N) \cup Copies(B, T)
  BY <1>4, <1>5, ReducedGiven
<1>7. Copies(B, T) \subseteq simulator.wires
  BY <1>1, <1>4 DEF Copies
<1>8. \A g \in Gates : OutputsOf(N.gates[g]) \subseteq simulator.wires
  BY <1>1, NamesAreWires DEF Gates
<1>9. \A g \in Gates : Copies(B, OutputsOf(N.gates[g])) \cap Copies(B, GivenWires(N)) = {}
  BY <1>1, <1>3, <1>5, <1>8 DEF WellDriven, Gates
<1> HIDE DEF A, B
<1>10. Copies(B, GivenWires(ReducedNetlist)) \subseteq Copies(B, GivenWires(N)) \cup Copies(B, T)
  <2> SUFFICES ASSUME NEW u \in GivenWires(N) \cup Copies(B, T), NEW w \in B[u]
               PROVE  w \in Copies(B, GivenWires(N)) \cup Copies(B, T)
    BY <1>6 DEF Copies
  <2>1. CASE u \in GivenWires(N)
    BY <2>1 DEF Copies
  <2>2. CASE u \in Copies(B, T)
    <3>1. PICK t \in T : u \in B[t]
      BY <2>2 DEF Copies
    <3>2. t \in simulator.wires /\ u \in simulator.wires
      BY <1>1, <1>4, <3>1
    <3>3. B[u] \subseteq B[t]
      BY <1>1, <1>2, <3>1, <3>2
    <3> QED BY <3>1, <3>3 DEF Copies
  <2> QED BY <2>1, <2>2
<1>11. ASSUME NEW g \in Gates \ RemovableGates
       PROVE  Copies(B, OutputsOf(N.gates[g])) \cap Copies(B, T) = {}
  <2> SUFFICES ASSUME NEW w \in Copies(B, OutputsOf(N.gates[g])) \cap Copies(B, T) PROVE FALSE
    OBVIOUS
  <2>1. PICK t \in T : w \in B[t]
    BY DEF Copies
  <2>2. PICK h \in RemovableGates : t \in OutputsOf(N.gates[h])
    BY <2>1, RemovedAreTied
  <2>3. h \in Gates /\ h # g
    BY RemovedAreGates
  <2>4. w \in Copies(B, OutputsOf(N.gates[h]))
    BY <2>1, <2>2 DEF Copies
  <2>5. Copies(A, OutputsOf(N.gates[g])) \cap Copies(A, OutputsOf(N.gates[h])) = {}
    BY SMTT(40), <1>1, <2>3 DEF WellDriven, Gates, A
  <2> QED BY <1>5, <1>8, <2>3, <2>4, <2>5
<1>12. \A g \in Gates \ RemovableGates :
         Copies(B, OutputsOf(N.gates[g])) \cap Copies(B, GivenWires(ReducedNetlist)) = {}
  BY <1>9, <1>10, <1>11
<1>13. GivenWires(ReducedNetlist) \subseteq simulator.wires
  BY <1>3, <1>6, <1>7
<1> QED BY <1>3, <1>9, <1>12, <1>13 DEF B

\* Gates of the netlist in a sorted order are the only drivers of their wires.
LEMMA GatesDriveAlone ==
  ASSUME IsCompiled(simulator), NEW s, NEW given, s.wires = simulator.wires, s.aliases = simulator.aliases,
         s.order \in Seq(Gates),
         \A j \in 1 .. Len(s.order) :
           /\ s.netlist.gates[s.order[j]] = N.gates[s.order[j]]
           /\ Copies(s.aliases, OutputsOf(N.gates[s.order[j]])) \cap Copies(s.aliases, given) = {},
         \A i, j \in 1 .. Len(s.order) : i # j => s.order[i] # s.order[j],
         \A i, j \in 1 .. Len(s.order) : i < j => ~Feeds(N, AliasMap(N), s.order[j], s.order[i])
  PROVE  OneDriver(s, given)
<1> DEFINE A == AliasMap(N)
           D(g) == Copies(A, OutputsOf(N.gates[g]))
           places == 1 .. Len(s.order)
<1>1. /\ simulator.wires = Wires(N) /\ WellFormed(N) /\ WellDriven(N)
      /\ \A w \in simulator.wires : s.aliases[w] = A[w]
  BY CompiledTyped, GateUsageAssumption DEF N
<1>2. Len(s.order) \in Nat /\ \A j \in places : s.order[j] \in Gates
  OBVIOUS
<1>3. \A g \in Gates : /\ OutputsOf(N.gates[g]) \subseteq simulator.wires
                       /\ ToSet(N.gates[g].in) \ Concrete \subseteq simulator.wires
  BY <1>1, NamesAreWires DEF Gates
<1>4. \A j \in places : Out(s, j) = OutputsOf(N.gates[s.order[j]]) /\ In(s, j) = ToSet(N.gates[s.order[j]].in) \ Concrete
  BY DEF Out, In
<1> HIDE DEF A
<1>5. \A j \in places : Copies(s.aliases, Out(s, j)) = D(s.order[j])
  BY SMTT(40), <1>1, <1>2, <1>3, <1>4 DEF Copies
<1>6. \A g \in Gates : \A v, w \in OutputsOf(N.gates[g]) : v # w => A[v] \cap A[w] = {}
  BY <1>1 DEF WellDriven, Gates, A
<1>7. ASSUME NEW g \in Gates, NEW h \in Gates \ {g} PROVE D(g) \cap D(h) = {}
  BY <1>1 DEF WellDriven, Gates, A
<1>8. ASSUME NEW g \in Gates PROVE (ToSet(N.gates[g].in) \ Concrete) \cap D(g) = {}
  <2>1. ToSet(N.gates[g].in) \ Concrete
          \subseteq Copies(A, GivenWires(N)) \cup UNION {D(h) : h \in Gates \ {g}}
    BY <1>1 DEF WellDriven, Gates, A
  <2>2. D(g) \cap Copies(A, GivenWires(N)) = {}
    BY <1>1 DEF WellDriven, Gates, A
  <2> HIDE DEF D
  <2> QED BY <1>7, <2>1, <2>2
<1>9. \A j \in places : /\ Copies(s.aliases, Out(s, j)) \cap Copies(s.aliases, given) = {}
                        /\ In(s, j) \subseteq s.wires
                        /\ \A v, w \in Out(s, j) : v # w => s.aliases[v] \cap s.aliases[w] = {}
  <2> SUFFICES ASSUME NEW j \in places
               PROVE  /\ Copies(s.aliases, Out(s, j)) \cap Copies(s.aliases, given) = {}
                      /\ In(s, j) \subseteq s.wires
                      /\ \A v, w \in Out(s, j) : v # w => s.aliases[v] \cap s.aliases[w] = {}
    OBVIOUS
  <2>1. Copies(s.aliases, Out(s, j)) \cap Copies(s.aliases, given) = {}
    BY <1>4
  <2>2. In(s, j) \subseteq s.wires
    BY <1>2, <1>3, <1>4
  <2>3. \A v, w \in Out(s, j) : v # w => s.aliases[v] \cap s.aliases[w] = {}
    BY SMTT(40), <1>1, <1>2, <1>3, <1>4, <1>6
  <2> QED BY <2>1, <2>2, <2>3
<1>10. ASSUME NEW i \in places, NEW j \in places, i < j
       PROVE  /\ Copies(s.aliases, Out(s, i)) \cap Copies(s.aliases, Out(s, j)) = {}
              /\ In(s, i) \cap Copies(s.aliases, Out(s, j)) = {}
  <2>1. s.order[i] # s.order[j]
    BY <1>2, <1>10
  <2>2. D(s.order[i]) \cap D(s.order[j]) = {}
    BY <1>2, <1>7, <2>1
  <2>3. (ToSet(N.gates[s.order[i]].in) \ Concrete) \cap D(s.order[j]) = {}
    <3>1. ~Feeds(N, A, s.order[j], s.order[i])
      BY <1>10 DEF A
    <3> QED BY <3>1 DEF Feeds, Copies
  <2> HIDE DEF D
  <2> QED BY <1>4, <1>5, <2>2, <2>3
<1>11. \A i, j \in places : i <= j => In(s, i) \cap Copies(s.aliases, Out(s, j)) = {}
  <2> SUFFICES ASSUME NEW i \in places, NEW j \in places, i <= j
               PROVE  In(s, i) \cap Copies(s.aliases, Out(s, j)) = {}
    OBVIOUS
  <2>1. CASE i < j
    BY <1>10, <2>1
  <2>2. CASE i = j
    <3>1. s.order[j] \in Gates
      BY <1>2
    <3> HIDE DEF D
    <3> QED BY <1>4, <1>5, <1>8, <2>2, <3>1
  <2> QED BY <1>2, <2>1, <2>2
<1> QED BY <1>2, <1>9, <1>10, <1>11 DEF OneDriver

\* What the same statics of the same simulator say is the same.
LEMMA SameStatics ==
  ASSUME simulator' = simulator, isStatic' = isStatic, staticValues' = staticValues
  PROVE  /\ Optimization' = Optimization /\ ReducedNetlist' = ReducedNetlist
         /\ (TiesAreConstant)' = TiesAreConstant
<1>1. N' = N /\ GateOutputs' = GateOutputs
  BY SameSimulator
<1>2. StaticGates' = StaticGates
  BY <1>1 DEF StaticGates, Gates
<1>3. \A static : UnobservableGates(static)' = UnobservableGates(static)
  BY <1>1 DEF UnobservableGates, Visits, Visit, InputWires, OutputWires, WithAliases, N
<1>4. RemovableGates' = RemovableGates
  BY <1>2, <1>3 DEF RemovableGates
<1>5. Optimization' = Optimization
  BY <1>1, <1>2, <1>4 DEF Optimization
<1>6. ReducedNetlist' = ReducedNetlist
  BY <1>1, <1>5 DEF ReducedNetlist, CommentedGatelist, Gates
<1> QED BY <1>1, <1>5, <1>6 DEF TiesAreConstant, TieValue

\* The statics of a run over some encodings have a constant each.
LEMMA StaticsAreConstant ==
  ASSUME PlacesTyped, NEW given \in GivenEncodings, StaticsTell(given)
  PROVE  TiesAreConstant
<1>1. given # {}
  BY GateUsageAssumption
<1> SUFFICES ASSUME NEW o \in GateOutputs PROVE TieValue(o) \in Concrete
  BY DEF TiesAreConstant
<1>2. CASE isStatic[o]
  BY <1>1, <1>2 DEF TieValue, StaticsTell, PlacesTyped
<1>3. CASE ~isStatic[o]
  BY <1>3 DEF TieValue, Concrete
<1> QED BY <1>2, <1>3

------------------------------------------------------------------------------
(* What it settles on. *)

\* A value for every wire that the surroundings of the gates drive.
GivesAll(given) == DOMAIN given = ToSet(N.inst) \cup N.others \cup SequentialOutputWires(N)

\* In both netlists what is given is driven by no gate, and other wires by one at most.
LEMMA BothDrivenOnce ==
  ASSUME IsCompiled(simulator), TiesAreConstant, NEW s, IsReduced(s), NEW given, GivesAll(given)
  PROVE  /\ DOMAIN Over(given, simulator.constants) = GivenWires(N)
         /\ DOMAIN Over(given, s.constants) = GivenWires(ReducedNetlist)
         /\ OneDriver(simulator, GivenWires(N))
         /\ OneDriver(s, GivenWires(ReducedNetlist))
<1>1. /\ simulator.order \in Seq(Gates)
      /\ \A i, j \in 1 .. Len(simulator.order) : i # j => simulator.order[i] # simulator.order[j]
      /\ \A i, j \in 1 .. Len(simulator.order) :
           i < j => ~Feeds(N, AliasMap(N), simulator.order[j], simulator.order[i])
      /\ simulator.constants = ConstantWrites(AliasMap(N))
  BY CompiledTyped DEF N, Gates
<1>2. /\ s.netlist = ReducedNetlist /\ s.wires = simulator.wires /\ s.aliases = simulator.aliases
      /\ s.order \in Seq(Gates \ RemovableGates)
      /\ \A i, j \in 1 .. Len(s.order) : i # j => s.order[i] # s.order[j]
      /\ \A i, j \in 1 .. Len(s.order) : i < j => ~Feeds(N, AliasMap(N), s.order[j], s.order[i])
      /\ s.constants = ConstantWrites(AliasMap(ReducedNetlist))
  BY ReducedTyped
<1>3. DOMAIN Over(given, simulator.constants) = GivenWires(N)
  BY <1>1 DEF GivesAll, Over, ConstantWrites, GivenWires
<1>4. DOMAIN Over(given, s.constants) = GivenWires(ReducedNetlist)
  <2>1. SequentialOutputWires(ReducedNetlist) = SequentialOutputWires(N)
    BY ReducedParts DEF SequentialOutputWires
  <2> QED BY <1>2, <2>1, ReducedParts DEF GivesAll, Over, ConstantWrites, GivenWires
<1>5. OneDriver(simulator, GivenWires(N))
  <2>1. \A j \in 1 .. Len(simulator.order) : simulator.order[j] \in Gates
    BY <1>1
  <2>2. \A j \in 1 .. Len(simulator.order) :
          /\ simulator.netlist.gates[simulator.order[j]] = N.gates[simulator.order[j]]
          /\ Copies(simulator.aliases, OutputsOf(N.gates[simulator.order[j]]))
               \cap Copies(simulator.aliases, GivenWires(N)) = {}
    BY <2>1, GivenIsApart DEF N
  <2> QED BY <1>1, <2>2, GatesDriveAlone
<1>6. OneDriver(s, GivenWires(ReducedNetlist))
  <2>1. \A j \in 1 .. Len(s.order) : s.order[j] \in Gates \ RemovableGates
    BY <1>2
  <2>2. s.order \in Seq(Gates)
    BY <1>2, <2>1
  <2>3. \A j \in 1 .. Len(s.order) :
          /\ s.netlist.gates[s.order[j]] = N.gates[s.order[j]]
          /\ Copies(s.aliases, OutputsOf(N.gates[s.order[j]]))
               \cap Copies(s.aliases, GivenWires(ReducedNetlist)) = {}
    BY <1>2, <2>1, GivenIsApart, ReducedParts
  <2> QED BY <1>2, <2>2, <2>3, GatesDriveAlone
<1> QED BY <1>3, <1>4, <1>5, <1>6

\* Both netlists settle on the same where the original has something given.
LEMMA GivenAgree ==
  ASSUME IsCompiled(simulator), TiesAreConstant, NEW s, IsReduced(s), NEW given, GivesAll(given),
         NEW w \in simulator.wires \cap Copies(simulator.aliases, GivenWires(N))
  PROVE  Simulated(s, given, NoneReplaced)[w] = Simulated(simulator, given, NoneReplaced)[w]
<1> DEFINE A == simulator.aliases
           T == Tied("0") \cup Tied("1")
           a == Over(given, simulator.constants)
           b == Over(given, s.constants)
           from == {u \in GivenWires(N) : w \in A[u]}
<1>1. /\ DOMAIN a = GivenWires(N) /\ DOMAIN b = GivenWires(ReducedNetlist)
      /\ OneDriver(simulator, DOMAIN a) /\ OneDriver(s, DOMAIN b)
  BY BothDrivenOnce
<1>2. /\ s.wires = simulator.wires /\ s.aliases = A
      /\ s.constants = ConstantWrites(AliasMap(ReducedNetlist))
      /\ simulator.constants = ConstantWrites(AliasMap(N))
  BY ReducedTyped, CompiledTyped DEF N
<1>3. /\ simulator.wires = Wires(N) /\ IsFiniteSet(Wires(N))
      /\ A \in [simulator.wires -> SUBSET simulator.wires]
      /\ \A v \in simulator.wires : A[v] = AliasMap(N)[v] /\ v \in A[v]
  BY CompiledTyped, GateUsageAssumption DEF N, WellFormed
<1>4. \A u \in simulator.wires : \A v \in A[u] : A[v] \subseteq A[u]
  BY AliasesClosed
<1>5. T \subseteq simulator.wires /\ GivenWires(N) \subseteq simulator.wires
  BY GivenIsApart DEF Tied
<1>6. Copies(A, T) \cap Copies(A, GivenWires(N)) = {}
  <2>1. \A t \in T : A[t] \cap Copies(A, GivenWires(N)) = {}
    <3> SUFFICES ASSUME NEW t \in T PROVE A[t] \cap Copies(A, GivenWires(N)) = {}
      OBVIOUS
    <3>1. PICK g \in RemovableGates : t \in OutputsOf(N.gates[g])
      BY RemovedAreTied
    <3>2. A[t] \subseteq Copies(A, OutputsOf(N.gates[g]))
      BY <3>1 DEF Copies
    <3>3. g \in Gates
      BY RemovedAreGates
    <3> QED BY <3>2, <3>3, GivenIsApart
  <2> QED BY <2>1 DEF Copies
<1>7. \A c \in Concrete : AliasMap(ReducedNetlist)[c] = AliasMap(N)[c] \cup Copies(A, Tied(c))
  <2>1. \A c : Copies(A, Tied(c)) = Copies(AliasMap(N), Tied(c))
    BY ZenonT(40), <1>3 DEF Copies, Tied
  <2> QED BY <2>1, ReducedAliases
<1>8. \A c : Copies(A, Tied(c)) \subseteq simulator.wires
  BY <1>3 DEF Copies, Tied
<1>9. GivenWires(ReducedNetlist) = GivenWires(N) \cup Copies(A, T)
  <2>1. Copies(A, T) = Copies(AliasMap(N), T)
    BY <1>3, <1>5 DEF Copies
  <2> QED BY <2>1, ReducedGiven
<1> HIDE DEF A, T
<1>10. {u \in DOMAIN b : w \in A[u]} = from
  <2>1. ASSUME NEW u \in Copies(A, T) PROVE w \notin A[u]
    <3>1. PICK t \in T : u \in A[t]
      BY <2>1 DEF Copies
    <3>2. A[u] \subseteq A[t]
      BY <1>4, <1>5, <3>1
    <3>3. A[u] \subseteq Copies(A, T)
      BY <3>1, <3>2 DEF Copies
    <3> QED BY <1>6, <3>3 DEF A
  <2> HIDE DEF b
  <2> QED BY <1>1, <1>9, <2>1
<1>11. {u \in DOMAIN a : w \in A[u]} = from
  <2> HIDE DEF a
  <2> QED BY <1>1
<1>12. from # {}
  BY DEF Copies, A
<1>13. \A v \in GivenWires(N) : a[v] = b[v]
  <2> SUFFICES ASSUME NEW v \in GivenWires(N) PROVE a[v] = b[v]
    OBVIOUS
  <2>1. CASE v \in DOMAIN given
    <3>1. v \in DOMAIN a /\ v \in DOMAIN b
      BY <1>1, <1>9
    <3> QED BY <2>1, <3>1 DEF Over
  <2>2. CASE v \notin DOMAIN given
    <3>1. v \in DOMAIN a /\ v \in DOMAIN b
      BY <1>1, <1>9
    <3>2. a[v] = simulator.constants[v] /\ b[v] = s.constants[v]
      BY <2>2, <3>1 DEF Over
    <3>3. v \in AliasMap(N)["0"] \cup AliasMap(N)["1"]
      BY <2>2 DEF GivesAll, GivenWires
    <3>4. v \in Copies(A, GivenWires(N))
      BY <1>3, <1>5 DEF Copies, A
    <3>5. v \notin Copies(A, Tied("0"))
      BY <1>6, <3>4 DEF T, Copies
    <3>6. v \in AliasMap(ReducedNetlist)["0"] <=> v \in AliasMap(N)["0"]
      BY <1>7, <3>5 DEF Concrete
    <3>7. v \in AliasMap(ReducedNetlist)["0"] \cup AliasMap(ReducedNetlist)["1"]
      BY <1>7, <3>3 DEF Concrete
    <3>8. a[v] = IF v \in AliasMap(N)["0"] THEN "0" ELSE "1"
      BY <1>2, <3>2, <3>3 DEF ConstantWrites
    <3>9. b[v] = IF v \in AliasMap(ReducedNetlist)["0"] THEN "0" ELSE "1"
      BY <1>2, <3>2, <3>7 DEF ConstantWrites
    <3> QED BY <3>6, <3>8, <3>9
  <2> QED BY <2>1, <2>2
<1>14. Simulated(simulator, given, NoneReplaced)[w] = a[CHOOSE v \in {u \in DOMAIN a : w \in A[u]} : TRUE]
  <2>1. w \in simulator.wires \cap Copies(simulator.aliases, DOMAIN a)
    BY <1>1
  <2> QED BY SMTT(40), <1>1, <2>1, WiresSettle DEF A
<1>15. Simulated(s, given, NoneReplaced)[w] = b[CHOOSE v \in {u \in DOMAIN b : w \in A[u]} : TRUE]
  <2>1. w \in s.wires \cap Copies(s.aliases, DOMAIN b)
    <3>1. GivenWires(N) \subseteq DOMAIN b
      BY <1>1, <1>9
    <3> QED BY <1>2, <3>1 DEF Copies, A
  <2>2. s.aliases = A
    BY <1>2
  <2> QED BY <1>1, <2>1, <2>2, WiresSettle
<1> HIDE DEF a, b, from
<1>16. (CHOOSE v \in from : TRUE) \in GivenWires(N)
  BY <1>12 DEF from
<1> QED BY ZenonT(40), <1>10, <1>11, <1>13, <1>14, <1>15, <1>16

\* What copies a tied wire settles on its constant.
LEMMA TiedSettle ==
  ASSUME IsCompiled(simulator), TiesAreConstant, NEW s, IsReduced(s), NEW given, GivesAll(given),
         NEW g \in RemovableGates, NEW t \in OutputsOf(N.gates[g]), NEW w \in simulator.aliases[t]
  PROVE  Simulated(s, given, NoneReplaced)[w] = TieValue(<<g, t>>)
<1> DEFINE A == simulator.aliases
           T == Tied("0") \cup Tied("1")
           b == Over(given, s.constants)
           from == {u \in DOMAIN b : w \in A[u]}
           c == TieValue(<<g, t>>)
<1>1. DOMAIN b = GivenWires(ReducedNetlist) /\ OneDriver(s, DOMAIN b)
  BY BothDrivenOnce
<1>2. /\ s.wires = simulator.wires /\ s.aliases = A
      /\ s.constants = ConstantWrites(AliasMap(ReducedNetlist))
  BY ReducedTyped
<1>3. /\ simulator.wires = Wires(N) /\ IsFiniteSet(Wires(N)) /\ WellDriven(N)
      /\ A \in [simulator.wires -> SUBSET simulator.wires]
      /\ \A v \in simulator.wires : A[v] = AliasMap(N)[v] /\ v \in A[v]
  BY CompiledTyped, GateUsageAssumption DEF N, WellFormed
<1>4. \A u \in simulator.wires : \A v \in A[u] : A[v] \subseteq A[u]
  BY AliasesClosed
<1>5. T \subseteq simulator.wires /\ GivenWires(N) \subseteq simulator.wires
  BY GivenIsApart DEF Tied
<1>6. g \in Gates /\ t \in simulator.wires /\ w \in simulator.wires
  BY <1>3, RemovedAreGates, NamesAreWires DEF Gates
<1>7. \A d : Copies(A, Tied(d)) = Copies(AliasMap(N), Tied(d)) /\ Copies(A, Tied(d)) \subseteq simulator.wires
  BY ZenonT(40), <1>3 DEF Copies, Tied
<1>8. \A d \in Concrete : AliasMap(ReducedNetlist)[d] = AliasMap(N)[d] \cup Copies(A, Tied(d))
  BY <1>7, ReducedAliases
<1>9. GivenWires(ReducedNetlist) = GivenWires(N) \cup Copies(A, T)
  <2>1. Copies(A, T) = Copies(AliasMap(N), T)
    BY <1>3, <1>5 DEF Copies
  <2> QED BY <2>1, ReducedGiven
<1>10. c \in Concrete /\ t \in Tied(c)
  <2>1. <<g, t>> \in GateOutputs
    BY <1>6 DEF GateOutputs
  <2> QED BY <1>6, <2>1 DEF TiesAreConstant, Tied
\* A wire that is copied there copies this tied wire and no other.
<1>11. ASSUME NEW d, NEW r \in Tied(d), w \in A[r] PROVE d = c
  <2>1. PICK h \in RemovableGates : r \in OutputsOf(N.gates[h]) /\ TieValue(<<h, r>>) = d
    BY DEF Tied
  <2>2. h \in Gates /\ r \in simulator.wires
    BY RemovedAreGates DEF Tied
  <2>3. w \in AliasMap(N)[r] /\ w \in AliasMap(N)[t]
    BY <1>3, <1>6, <1>11, <2>2
  <2>4. h = g
    <3> SUFFICES ASSUME h # g PROVE FALSE
      OBVIOUS
    <3>1. Copies(AliasMap(N), OutputsOf(N.gates[g])) \cap Copies(AliasMap(N), OutputsOf(N.gates[h])) = {}
      BY <1>3, <1>6, <2>2 DEF WellDriven, Gates
    <3>2. w \in Copies(AliasMap(N), OutputsOf(N.gates[g])) /\ w \in Copies(AliasMap(N), OutputsOf(N.gates[h]))
      BY <2>1, <2>3 DEF Copies
    <3> QED BY <3>1, <3>2
  <2>5. r = t
    <3> SUFFICES ASSUME r # t PROVE FALSE
      OBVIOUS
    <3>1. AliasMap(N)[r] \cap AliasMap(N)[t] = {}
      BY <1>3, <1>6, <2>1, <2>4 DEF WellDriven, Gates
    <3> QED BY <2>3, <3>1
  <2> QED BY <2>1, <2>4, <2>5
<1>12. w \notin Copies(A, GivenWires(N))
  <2>1. w \in Copies(A, OutputsOf(N.gates[g]))
    BY DEF Copies
  <2> QED BY <1>6, <2>1, GivenIsApart
<1> HIDE DEF A, T, c
<1>13. ASSUME NEW u \in from PROVE b[u] = c
  <2>1. u \in DOMAIN b /\ w \in A[u]
    OBVIOUS
  <2>2. u \notin GivenWires(N)
    BY <1>12, <2>1 DEF Copies
  <2>3. u \in Copies(A, T)
    BY <1>1, <1>9, <2>1, <2>2
  <2>4. ASSUME NEW d \in Concrete, u \in Copies(A, Tied(d)) PROVE d = c
    <3>1. PICK r \in Tied(d) : u \in A[r]
      BY <2>4 DEF Copies
    <3>2. r \in simulator.wires
      BY DEF Tied
    <3>3. w \in A[r]
      BY <1>4, <2>1, <3>1, <3>2
    <3> QED BY <1>11, <3>3
  <2>5. u \in Copies(A, Tied("0")) \/ u \in Copies(A, Tied("1"))
    BY <2>3 DEF Copies, T
  <2>6. u \in Copies(A, Tied(c))
    BY <2>4, <2>5 DEF Concrete
  <2>7. u \notin DOMAIN given /\ u \notin AliasMap(N)["0"]
    BY <2>2 DEF GivesAll, GivenWires
  <2>8. u \in AliasMap(ReducedNetlist)["0"] <=> c = "0"
    BY <1>8, <2>4, <2>6, <2>7 DEF Concrete
  <2>9. u \in AliasMap(ReducedNetlist)["0"] \cup AliasMap(ReducedNetlist)["1"]
    BY <1>8, <1>10, <2>6 DEF Concrete
  <2>10. b[u] = s.constants[u]
    BY <2>1, <2>7 DEF Over
  <2>11. b[u] = IF u \in AliasMap(ReducedNetlist)["0"] THEN "0" ELSE "1"
    BY <1>2, <2>9, <2>10 DEF ConstantWrites
  <2> QED BY <1>10, <2>8, <2>11 DEF Concrete
<1>14. t \in from
  <2>1. t \in A[t]
    BY <1>3, <1>6
  <2>2. t \in Copies(A, T)
    BY <1>10, <2>1 DEF Copies, T, Concrete
  <2>3. t \in DOMAIN b
    BY <1>1, <1>9, <2>2
  <2> QED BY <2>3 DEF A
<1>15. Simulated(s, given, NoneReplaced)[w] = b[CHOOSE v \in from : TRUE]
  <2>1. w \in s.wires \cap Copies(s.aliases, DOMAIN b)
    BY <1>2, <1>6, <1>14 DEF Copies
  <2>2. s.aliases = A
    BY <1>2
  <2> QED BY <1>1, <2>1, <2>2, WiresSettle
<1> HIDE DEF from, b
<1>16. (CHOOSE v \in from : TRUE) \in from
  BY <1>14
<1> QED BY <1>13, <1>15, <1>16 DEF c

\* No gate drives what an earlier gate reads, nor what copies that.
LEMMA NoBackfeed ==
  ASSUME IsCompiled(simulator), NEW i \in 1 .. Len(simulator.order), NEW j \in 1 .. Len(simulator.order),
         i <= j
  PROVE  OutputWires(simulator.order[j]) \cap WithAliases(InputWires(simulator.order[i])) = {}
<1> DEFINE order == simulator.order
           A == simulator.aliases
<1>1. /\ simulator.wires = Wires(N) /\ IsFiniteSet(Wires(N)) /\ Len(order) \in Nat
      /\ A \in [simulator.wires -> SUBSET simulator.wires]
      /\ \A v \in simulator.wires : A[v] = AliasMap(N)[v]
  BY CompiledTyped, GateUsageAssumption DEF N, WellFormed
<1>2. \A u \in simulator.wires : \A v \in A[u] : A[v] \subseteq A[u]
  BY AliasesClosed
<1>3. ASSUME NEW v \in Driven(simulator, i - 1) PROVE A[v] \subseteq Driven(simulator, i - 1)
  <2>1. v \in simulator.wires
    BY DEF Driven
  <2>2. A[v] \subseteq simulator.wires
    BY <1>1, <2>1
  <2>3. \A wires \in SUBSET simulator.wires : v \in Copies(A, wires) => A[v] \subseteq Copies(A, wires)
    BY <1>2 DEF Copies
  <2>4. GivenWires(N) \subseteq simulator.wires
    BY CompiledTyped, GateUsageAssumption, GivenAreWires DEF N
  <2>5. \A k \in 1 .. i - 1 : OutputsOf(N.gates[order[k]]) \subseteq simulator.wires
    <3>1. \A k \in 1 .. i - 1 : k \in 1 .. Len(order)
      BY <1>1
    <3>2. \A k \in 1 .. Len(order) : order[k] \in DOMAIN N.gates
      <4>1. order \in Seq(DOMAIN N.gates)
        BY CompiledTyped DEF N
      <4> QED BY ONLY <4>1
    <3> QED BY <1>1, <3>1, <3>2, NamesAreWires
  <2>6. \/ v \in Copies(A, GivenWires(N))
        \/ \E k \in 1 .. i - 1 : v \in Copies(A, OutputsOf(N.gates[order[k]]))
    BY DEF Driven, N
  <2> HIDE DEF A, order
  <2>7. \/ A[v] \subseteq Copies(A, GivenWires(N))
        \/ \E k \in 1 .. i - 1 : A[v] \subseteq Copies(A, OutputsOf(N.gates[order[k]]))
    BY <2>3, <2>4, <2>5, <2>6
  <2> QED BY <2>2, <2>7 DEF Driven, N, A, order
<1>4. InputWires(order[i]) \subseteq Driven(simulator, i - 1)
  BY InputsAreDriven
<1>5. WithAliases(InputWires(order[i])) \subseteq Driven(simulator, i - 1)
  BY <1>3, <1>4 DEF WithAliases
<1>6. i \in 1 .. Len(order) + 1 /\ j \in i .. Len(order)
  BY <1>1
<1>7. \A w \in OutputWires(order[j]) : w \notin Driven(simulator, i - 1)
  BY <1>6, OutputsAreNotDriven
<1> QED BY <1>5, <1>7

\* The wires marked as needed in the end.
Needed == Visits(StaticGates)[Len(simulator.order)].needed

\* A gate that drives a needed wire is static, or it is kept and needs its inputs.
LEMMA NeededIsClosed ==
  ASSUME IsCompiled(simulator)
  PROVE  /\ simulator.outputs \subseteq Needed
         /\ \A g \in Gates : OutputWires(g) \cap Needed # {} =>
              g \in StaticGates \/ (g \notin RemovableGates /\ InputWires(g) \subseteq Needed)
<1> DEFINE order == simulator.order
           m == Len(order)
           at == Visits(StaticGates)
           Settled(i, g) == OutputWires(g) \cap at[i].needed # {} =>
                              g \in StaticGates \/ (g \notin at[i].gates /\ InputWires(g) \subseteq at[i].needed)
<1>1. /\ m \in Nat /\ \A j \in 1 .. m : order[j] \in Gates
      /\ \A g \in Gates : \E j \in 1 .. m : order[j] = g
      /\ \A i, j \in 1 .. m : i # j => order[i] # order[j]
  BY SMTT(40), CompiledTyped DEF N, Gates
<1>2. /\ \A k \in 0 .. m : at[k] \in Visited
      /\ at[0] = [needed |-> simulator.outputs, cut |-> {}, gates |-> {}]
      /\ \A k \in 1 .. m : at[k] = Visit(at[k - 1], order[m + 1 - k], StaticGates)
  BY VisitsFollow
<1> HIDE DEF at, order, m
<1>3. ASSUME NEW i \in 0 .. m - 1
      PROVE  LET h == order[m - i]
             IN  /\ m - i \in 1 .. m /\ i \in 0 .. m /\ i + 1 \in 0 .. m
                 /\ at[i] \in Visited /\ at[i + 1] \in Visited
                 /\ at[i + 1] = Visit(at[i], h, StaticGates)
                 /\ at[i].needed \subseteq at[i + 1].needed
                 /\ at[i + 1].needed \subseteq at[i].needed \cup WithAliases(InputWires(h))
                 /\ at[i + 1].gates \subseteq at[i].gates \cup {h}
  <2> DEFINE h == order[m - i]
             inputs == WithAliases(InputWires(h))
  <2>1. m - i \in 1 .. m /\ i \in 0 .. m /\ i + 1 \in 0 .. m /\ i + 1 \in 1 .. m /\ (i + 1) - 1 = i
        /\ m + 1 - (i + 1) = m - i
    BY <1>1
  <2>2. at[i + 1] = Visit(at[i], h, StaticGates)
    BY <1>2, <2>1
  <2>3. at[i] \in Visited /\ at[i + 1] \in Visited
    BY <1>2, <2>1
  <2> HIDE DEF h
  <2>4. at[i + 1] \in {at[i], [at[i] EXCEPT !.cut = @ \cup inputs], [at[i] EXCEPT !.needed = @ \cup inputs],
                       [at[i] EXCEPT !.cut = @ \cup inputs, !.gates = @ \cup {h}]}
    BY <2>2 DEF Visit
  <2> HIDE DEF inputs
  <2>5. /\ at[i].needed \subseteq at[i + 1].needed
        /\ at[i + 1].needed \subseteq at[i].needed \cup inputs
        /\ at[i + 1].gates \subseteq at[i].gates \cup {h}
    BY ZenonT(40), <2>3, <2>4 DEF Visited
  <2> QED BY <2>1, <2>2, <2>3, <2>5 DEF h, inputs
<1>4. simulator.outputs \subseteq at[m].needed
  <2> DEFINE Good == {i \in 0 .. m : simulator.outputs \subseteq at[i].needed}
  <2>1. 0 \in Good
    BY <1>1, <1>2
  <2>2. \A i \in 0 .. m - 1 : i \in Good => i + 1 \in Good
    <3> SUFFICES ASSUME NEW i \in 0 .. m - 1, i \in Good PROVE i + 1 \in Good
      OBVIOUS
    <3> QED BY <1>3
  <2> HIDE DEF Good
  <2>3. m \in Good
    <3>1. 0 .. m \subseteq Good
      BY <1>1, <2>1, <2>2, Counting
    <3> QED BY <1>1, <3>1
  <2> QED BY <2>3 DEF Good
<1>5. ASSUME NEW g \in Gates PROVE Settled(m, g)
  <2>1. PICK j \in 1 .. m : order[j] = g
    BY <1>1
  <2> DEFINE Before(i) == i <= m - j => g \notin at[i].gates
             After(i) == i > m - j => Settled(i, g)
             Good == {i \in 0 .. m : Before(i) /\ After(i)}
  <2>2. m - j \in Nat /\ m - j < m
    BY <1>1
  <2>3. 0 \in Good
    <3>1. g \notin at[0].gates
      BY <1>2
    <3> QED BY <1>1, <2>2, <3>1
  <2>4. \A i \in 0 .. m - 1 : i \in Good => i + 1 \in Good
    <3> SUFFICES ASSUME NEW i \in 0 .. m - 1, Before(i), After(i) PROVE i + 1 \in 0 .. m /\ Before(i + 1) /\ After(i + 1)
      OBVIOUS
    <3> DEFINE h == order[m - i]
    <3>1. /\ m - i \in 1 .. m /\ i \in 0 .. m /\ i + 1 \in 0 .. m
          /\ at[i] \in Visited /\ at[i + 1] \in Visited
          /\ at[i + 1] = Visit(at[i], h, StaticGates)
          /\ at[i].needed \subseteq at[i + 1].needed
          /\ at[i + 1].needed \subseteq at[i].needed \cup WithAliases(InputWires(h))
          /\ at[i + 1].gates \subseteq at[i].gates \cup {h}
      BY <1>3
    <3>2. m - i # j => h # g
      BY <1>1, <2>1, <3>1
    <3>3. CASE i < m - j
      <4>1. i <= m - j /\ ~(i + 1 > m - j) /\ m - i # j
        BY <1>1, <2>2, <3>3
      <4>2. g \notin at[i + 1].gates
        BY <3>1, <3>2, <4>1
      <4> QED BY <3>1, <4>1, <4>2
    <3>4. CASE i = m - j
      <4>1. i <= m - j /\ ~(i + 1 <= m - j) /\ m - i = j /\ h = g
        BY <1>1, <2>1, <2>2, <3>4
      <4>2. g \notin at[i].gates
        BY <4>1
      <4>3. at[i + 1] = Visit(at[i], g, StaticGates)
        BY <3>1, <4>1
      <4>4. OutputWires(g) \subseteq WithAliases(OutputWires(g)) /\ InputWires(g) \subseteq WithAliases(InputWires(g))
        BY DEF WithAliases
      <4>5. CASE g \in StaticGates
        BY <3>1, <4>1, <4>5
      <4>6. CASE g \notin StaticGates /\ WithAliases(OutputWires(g)) \cap at[i].needed # {}
        <5>1. at[i + 1] = [at[i] EXCEPT !.needed = @ \cup WithAliases(InputWires(g))]
          BY <4>3, <4>6 DEF Visit
        <5>2. at[i + 1].gates = at[i].gates /\ at[i + 1].needed = at[i].needed \cup WithAliases(InputWires(g))
          BY <3>1, <5>1 DEF Visited
        <5> QED BY <3>1, <4>1, <4>2, <4>4, <5>2
      <4>7. CASE g \notin StaticGates /\ WithAliases(OutputWires(g)) \cap at[i].needed = {}
        <5>1. at[i + 1] \in {at[i], [at[i] EXCEPT !.cut = @ \cup WithAliases(InputWires(g)), !.gates = @ \cup {g}]}
          BY <4>3, <4>7 DEF Visit
        <5>2. at[i + 1].needed = at[i].needed
          BY <3>1, <5>1 DEF Visited
        <5> QED BY <3>1, <4>1, <4>4, <4>7, <5>2
      <4> QED BY <4>5, <4>6, <4>7
    <3>5. CASE i > m - j
      <4>1. ~(i + 1 <= m - j) /\ m - i # j /\ m - i <= j
        BY <1>1, <2>2, <3>5
      <4>2. OutputWires(g) \cap WithAliases(InputWires(h)) = {}
        BY <2>1, <3>1, <4>1, NoBackfeed DEF order, m
      <4>3. Settled(i, g)
        BY <3>5
      <4>4. h # g
        BY <3>2, <4>1
      <4> HIDE DEF h
      <4>5. Settled(i + 1, g)
        BY <3>1, <4>2, <4>3, <4>4
      <4> QED BY <3>1, <4>1, <4>5
    <3> QED BY <1>1, <2>2, <3>3, <3>4, <3>5
  <2> HIDE DEF Good
  <2>5. m \in Good
    <3>1. 0 .. m \subseteq Good
      BY <1>1, <2>3, <2>4, Counting
    <3> QED BY <1>1, <3>1
  <2> QED BY <2>2, <2>5 DEF Good
<1>6. Needed = at[m].needed /\ UnobservableGates(StaticGates) = at[m].gates
  BY DEF Needed, UnobservableGates, at, m, order
<1> QED BY <1>4, <1>5, <1>6 DEF RemovableGates

\* Where the workspace says static, a simulation of this gives that value.
StaticsHold(given) ==
  \A o \in GateOutputs :
    isStatic[o] => Simulated(simulator, given, NoneReplaced)[o[2]] = staticValues[o]

\* Both netlists settle on the same for every needed wire that is driven.
LEMMA NeededAgree ==
  ASSUME IsCompiled(simulator), TiesAreConstant, NEW s, IsReduced(s), NEW given, GivesAll(given),
         StaticsHold(given)
  PROVE  \A w \in Needed \cap Driven(simulator, Len(simulator.order)) :
           Simulated(s, given, NoneReplaced)[w] = Simulated(simulator, given, NoneReplaced)[w]
<1> DEFINE order == simulator.order
           m == Len(order)
           A == simulator.aliases
           one == Simulated(simulator, given, NoneReplaced)
           other == Simulated(s, given, NoneReplaced)
           Good == {k \in 0 .. m : \A w \in Needed \cap Driven(simulator, k) : other[w] = one[w]}
<1>1. /\ m \in Nat /\ \A j \in 1 .. m : order[j] \in Gates
      /\ simulator.wires = Wires(N)
      /\ A \in [simulator.wires -> SUBSET simulator.wires]
      /\ \A v \in simulator.wires : v \in A[v]
  BY CompiledTyped DEF N, Gates
<1>2. /\ DOMAIN Over(given, simulator.constants) = GivenWires(N)
      /\ DOMAIN Over(given, s.constants) = GivenWires(ReducedNetlist)
      /\ OneDriver(simulator, GivenWires(N)) /\ OneDriver(s, GivenWires(ReducedNetlist))
  BY BothDrivenOnce
<1>3. /\ s.netlist = ReducedNetlist /\ s.wires = simulator.wires /\ s.aliases = A
      /\ s.order \in Seq(Gates \ RemovableGates)
      /\ \A g \in Gates \ RemovableGates : \E j \in 1 .. Len(s.order) : s.order[j] = g
  BY ReducedTyped
<1>4. ASSUME NEW j \in 1 .. m, NEW v \in OutputsOf(N.gates[order[j]]), NEW w \in A[v]
      PROVE  one[w] = Evaluated(N.gates[order[j]], Inputs(one, N.gates[order[j]]))[v]
  <2>1. v \in Out(simulator, j)
    BY DEF Out, N
  <2>2. w \in simulator.wires
    BY <1>1, NamesAreWires DEF Gates
  <2> QED BY <1>2, <2>1, <2>2, WiresSettle DEF N
<1>5. ASSUME NEW g \in Gates \ RemovableGates, NEW v \in OutputsOf(N.gates[g]), NEW w \in A[v]
      PROVE  other[w] = Evaluated(N.gates[g], Inputs(other, N.gates[g]))[v]
  <2>1. PICK j \in 1 .. Len(s.order) : s.order[j] = g
    BY <1>3
  <2>2. s.netlist.gates[s.order[j]] = N.gates[g]
    BY <1>3, <2>1, ReducedParts
  <2>3. v \in Out(s, j)
    BY <2>2 DEF Out
  <2>4. w \in s.wires /\ w \in s.aliases[v]
    BY SMTT(40), <1>1, <1>3, NamesAreWires DEF Gates
  <2>5. OneDriver(s, DOMAIN Over(given, s.constants))
    BY <1>2
  <2>6. other[w] = Evaluated(s.netlist.gates[s.order[j]], Inputs(other, s.netlist.gates[s.order[j]]))[v]
    BY <2>3, <2>4, <2>5, WiresSettle
  <2> HIDE DEF other
  <2> QED BY <2>2, <2>6
<1>6. /\ Driven(simulator, 0) = Copies(A, GivenWires(N)) \cap simulator.wires
      /\ \A k \in 1 .. m :
           Driven(simulator, k)
             = Driven(simulator, k - 1) \cup (Copies(A, OutputsOf(N.gates[order[k]])) \cap simulator.wires)
  BY DrivenGrows
<1>7. 0 \in Good
  BY <1>1, <1>6, GivenAgree
<1>8. \A k \in 0 .. m - 1 : k \in Good => k + 1 \in Good
  <2> SUFFICES ASSUME NEW k \in 0 .. m - 1, k \in Good,
                      NEW w \in Needed \cap Driven(simulator, k + 1)
               PROVE  k + 1 \in 0 .. m /\ other[w] = one[w]
    OBVIOUS
  <2> DEFINE j == k + 1
             g == order[j]
             gate == N.gates[g]
  <2>1. j \in 1 .. m /\ j \in 0 .. m /\ j - 1 = k
    BY <1>1
  <2>2. g \in Gates
    BY <1>1, <2>1
  <2>3. CASE w \in Driven(simulator, k)
    BY <2>1, <2>3
  <2>4. CASE w \notin Driven(simulator, k)
    <3>1. w \in Copies(A, OutputsOf(gate))
      BY <1>6, <2>1, <2>4
    <3>2. PICK v \in OutputsOf(gate) : w \in A[v]
      BY <3>1 DEF Copies
    <3>3. v \in simulator.wires
      BY <1>1, <2>2, NamesAreWires DEF Gates
    <3>4. w \in OutputWires(g)
      BY <3>2 DEF OutputWires, WithAliases
    <3>5. g \in StaticGates \/ (g \notin RemovableGates /\ InputWires(g) \subseteq Needed)
      BY <2>2, <3>4, NeededIsClosed
    <3>6. one[w] = Evaluated(gate, Inputs(one, gate))[v]
      BY <1>4, <2>1, <3>2
    <3>7. CASE g \in StaticGates
      <4>1. <<g, v>> \in GateOutputs /\ isStatic[<<g, v>>] /\ g \in RemovableGates
        BY <2>2, <3>3, <3>7 DEF GateOutputs, StaticGates, RemovableGates
      <4>2. other[w] = TieValue(<<g, v>>)
        BY <3>2, <4>1, TiedSettle
      <4>3. one[v] = staticValues[<<g, v>>]
        <5> DEFINE o == <<g, v>>
        <5>1. o \in GateOutputs /\ isStatic[o] /\ o[2] = v
          BY <4>1
        <5> HIDE DEF o, one
        <5>2. one[o[2]] = staticValues[o]
          BY <5>1 DEF StaticsHold, one
        <5> QED BY <5>1, <5>2 DEF o
      <4>4. one[v] = Evaluated(gate, Inputs(one, gate))[v]
        BY <1>1, <1>4, <2>1, <3>3
      <4>5. TieValue(<<g, v>>) = staticValues[<<g, v>>]
        BY <4>1 DEF TieValue
      <4> HIDE DEF one, other, gate, g
      <4> QED BY <2>1, <3>6, <4>2, <4>3, <4>4, <4>5
    <3>8. CASE g \notin RemovableGates /\ InputWires(g) \subseteq Needed
      <4>1. InputWires(g) \subseteq Driven(simulator, k)
        BY <2>1, InputsAreDriven
      <4>2. \A u \in InputWires(g) : other[u] = one[u]
        BY <3>8, <4>1
      <4> HIDE DEF one, other
      <4>3. Inputs(one, gate) = Inputs(other, gate)
        <5>1. \A i \in DOMAIN gate.in : gate.in[i] \in Concrete \/ gate.in[i] \in InputWires(g)
          BY DEF InputWires, ToSet
        <5> HIDE DEF gate
        <5> QED BY <4>2, <5>1 DEF Inputs, ReadSimInput
      <4>4. other[w] = Evaluated(gate, Inputs(other, gate))[v]
        BY <1>5, <2>2, <3>2, <3>8
      <4> HIDE DEF gate
      <4> QED BY <2>1, <3>6, <4>3, <4>4
    <3> QED BY <3>5, <3>7, <3>8
  <2> QED BY <2>3, <2>4
<1> HIDE DEF Good
<1>9. m \in Good
  <2>1. 0 .. m \subseteq Good
    BY <1>1, <1>7, <1>8, Counting
  <2> QED BY <1>1, <2>1
<1> QED BY <1>9 DEF Good

\* Among these is what the outputs and the flops see.
LEMMA ObservedAreNeeded ==
  ASSUME IsCompiled(simulator)
  PROVE  N.outputs \cup SequentialInputWires(N)
           \subseteq Needed \cap Driven(simulator, Len(simulator.order))
<1> DEFINE seen == N.outputs \cup SequentialInputWires(N)
           A == simulator.aliases
           order == simulator.order
<1>1. /\ simulator.wires = Wires(N) /\ WellFormed(N) /\ WellDriven(N)
      /\ \A g \in Gates : \E j \in 1 .. Len(order) : order[j] = g
      /\ \A v \in simulator.wires : A[v] = AliasMap(N)[v]
  BY CompiledTyped, GateUsageAssumption DEF N, Gates
<1>2. seen \subseteq Needed
  <2>1. seen \subseteq simulator.outputs
    BY OutputsCompiled DEF TopModOutputs, N
  <2> QED BY <2>1, NeededIsClosed
<1>3. seen \subseteq simulator.wires
  BY <1>1 DEF Wires
<1>4. GivenWires(N) \subseteq simulator.wires /\ \A g \in Gates : OutputsOf(N.gates[g]) \subseteq simulator.wires
  BY <1>1, GivenAreWires, NamesAreWires DEF Gates
<1>5. \A wires \in SUBSET simulator.wires : Copies(A, wires) = Copies(AliasMap(N), wires)
  BY <1>1 DEF Copies
<1>6. \A w \in seen : \/ w \in Copies(A, GivenWires(N))
                      \/ \E g \in Gates : w \in Copies(A, OutputsOf(N.gates[g]))
  BY <1>1, <1>4, <1>5 DEF WellDriven, Gates
<1> HIDE DEF seen
<1>7. seen \subseteq Driven(simulator, Len(order))
  <2> SUFFICES ASSUME NEW w \in seen PROVE w \in Driven(simulator, Len(order))
    OBVIOUS
  <2>1. CASE w \in Copies(A, GivenWires(N))
    BY <1>3, <2>1 DEF Driven, N
  <2>2. CASE \E g \in Gates : w \in Copies(A, OutputsOf(N.gates[g]))
    <3>1. PICK g \in Gates : w \in Copies(A, OutputsOf(N.gates[g]))
      BY <2>2
    <3>2. PICK j \in 1 .. Len(order) : order[j] = g
      BY <1>1
    <3> QED BY <1>3, <3>1, <3>2 DEF Driven, N
  <2> QED BY <1>6, <2>1, <2>2
<1> QED BY <1>2, <1>7 DEF seen

------------------------------------------------------------------------------
(* The clock cycles of both cores. *)

\* What the flops in these states drive.
FlopsDrive(flops) ==
  [w \in SequentialOutputWires(N) |-> flops[CHOOSE f \in DOMAIN N.flops : N.flops[f].q = w]]

\* A pattern stands for all that is given when one of its words is executed.
LEMMA PatternsCover ==
  ASSUME IsCompiled(simulator), NEW given \in GivenEncodings, NEW pattern \in given,
         NEW word \in Words(pattern), NEW other \in [N.others -> Concrete],
         NEW flops \in [DOMAIN N.flops -> Bit]
  PROVE  LET all == Over(Over(other, Fetched(word)), FlopsDrive(flops))
             known == KnownInputs(N, pattern)
         IN  /\ GivesAll(all) /\ GivesBits(all) /\ GivesBits(known)
             /\ \A w \in GivenWires(N) : Covers(Over(known, simulator.constants)[w],
                                                Over(all, simulator.constants)[w])
<1> DEFINE all == Over(Over(other, Fetched(word)), FlopsDrive(flops))
           known == KnownInputs(N, pattern)
           place(w) == CHOOSE k \in DOMAIN N.inst : N.inst[k] = w
           len == Len(N.inst)
<1>1. /\ N \in GivenNetlists /\ WellFormed(N) /\ simulator.constants = ConstantWrites(AliasMap(N))
  BY CompiledTyped, GateUsageAssumption DEF N
<1>2. len \in Nat /\ DOMAIN N.inst = 1 .. len
  BY <1>1 DEF WellFormed
<1>3. pattern \in [1 .. len -> Bit] /\ word \in [1 .. len -> Concrete]
  BY <1>1, GateUsageAssumption DEF Words
<1>4. \A i \in 1 .. len : Covers(pattern[i], word[i])
  BY <1>3 DEF Words, Covers
<1>5. Len(pattern) = len /\ Len(word) = len /\ DOMAIN word = DOMAIN N.inst
  BY <1>2, <1>3
<1>6. \A w \in ToSet(N.inst) : place(w) \in 1 .. len
  BY <1>2 DEF ToSet
<1> HIDE DEF len, place
<1>7. \A k \in 1 .. len : Reverse(word)[k] = word[len + 1 - k] /\ len + 1 - k \in 1 .. len
  <2> SUFFICES ASSUME NEW k \in 1 .. len PROVE Reverse(word)[k] = word[len + 1 - k] /\ len + 1 - k \in 1 .. len
    OBVIOUS
  <2>1. (len - k) + 1 = len + 1 - k /\ len + 1 - k \in 1 .. len
    BY <1>2
  <2>2. Reverse(word)[k] = word[(len - k) + 1]
    BY <1>5 DEF Reverse
  <2> QED BY <2>1, <2>2
<1>8. Fetched(word) = [w \in ToSet(N.inst) |-> word[len + 1 - place(w)]]
  <2>1. \A w \in ToSet(N.inst) : (CHOOSE k \in DOMAIN word : N.inst[k] = w) = place(w)
    BY <1>5 DEF place
  <2>2. \A w \in ToSet(N.inst) : Reverse(word)[place(w)] = word[len + 1 - place(w)]
    BY <1>6, <1>7
  <2>3. Fetched(word) = [w \in ToSet(N.inst) |-> Reverse(word)[CHOOSE k \in DOMAIN word : N.inst[k] = w]]
    BY DEF Fetched
  <2> QED BY ONLY SMTT(40), <2>1, <2>2, <2>3
<1>9. PatternToSimInputs(N, pattern)
        = Over([w \in ToSet(N.inst) |-> pattern[len + 1 - place(w)]], [w \in N.others |-> "x"])
  BY <1>5 DEF PatternToSimInputs, place
<1>10. \A w \in ToSet(N.inst) : /\ Covers(pattern[len + 1 - place(w)], word[len + 1 - place(w)])
                                /\ word[len + 1 - place(w)] \in Concrete
  BY <1>3, <1>4, <1>6, <1>7
<1>11. Fetched(word) \in [ToSet(N.inst) -> Bit] /\ other \in [N.others -> Bit]
  BY <1>8, <1>10 DEF Concrete, Bit
<1>12. FlopsDrive(flops) \in [SequentialOutputWires(N) -> Bit]
  <2>1. \A w \in SequentialOutputWires(N) : (CHOOSE f \in DOMAIN N.flops : N.flops[f].q = w) \in DOMAIN N.flops
    BY DEF SequentialOutputWires
  <2> QED BY <2>1 DEF FlopsDrive
<1>13. all \in [ToSet(N.inst) \cup N.others \cup SequentialOutputWires(N) -> Bit]
  <2> DEFINE x == Fetched(word)
             y == FlopsDrive(flops)
  <2> HIDE DEF x, y
  <2>1. Over(other, x) \in [ToSet(N.inst) \cup N.others -> Bit]
    BY <1>11 DEF Over, x
  <2> DEFINE z == Over(other, x)
  <2> HIDE DEF z
  <2>2. Over(z, y) \in [ToSet(N.inst) \cup N.others \cup SequentialOutputWires(N) -> Bit]
    BY <1>12, <2>1 DEF Over, y, z
  <2> QED BY <2>2 DEF x, y, z
<1>14. GivesAll(all)
  BY <1>13 DEF GivesAll
<1>15. ConstantWrites(AliasMap(N)) \in [AliasMap(N)["0"] \cup AliasMap(N)["1"] -> Bit]
  BY DEF ConstantWrites, Bit
<1>16. GivesBits(all)
  <2> HIDE DEF all
  <2> QED BY <1>1, <1>13, <1>15 DEF GivesBits, GivenWires, Over
<1>17. GivesBits(known)
  BY <1>1, GivenAreBits DEF GivesBits
<1>18. DOMAIN known = ToSet(N.inst) \cup N.others \cup SequentialOutputWires(N)
  BY <1>9 DEF KnownInputs, FlopOutputs, Over
<1>19. \A w \in DOMAIN known : Covers(known[w], all[w])
  <2> SUFFICES ASSUME NEW w \in ToSet(N.inst) \cup N.others \cup SequentialOutputWires(N)
               PROVE  Covers(known[w], all[w])
    BY <1>18
  <2>1. CASE w \in ToSet(N.inst)
    <3>1. w \notin N.others
      BY <1>1, <2>1 DEF WellFormed
    <3>2. all[w] = word[len + 1 - place(w)]
      <4>1. w \notin DOMAIN other /\ w \in DOMAIN Fetched(word) /\ w \in DOMAIN Over(other, Fetched(word))
        BY <1>11, <2>1, <3>1 DEF Over
      <4>2. all[w] = Fetched(word)[w]
        BY <4>1 DEF Over
      <4> QED BY <1>8, <2>1, <4>2
    <3>3. known[w] = pattern[len + 1 - place(w)]
      BY <1>9, <2>1 DEF KnownInputs, Over
    <3> QED BY <1>10, <2>1, <3>2, <3>3
  <2>2. CASE w \notin ToSet(N.inst)
    <3>1. known[w] = "x"
      BY <1>9, <2>2 DEF KnownInputs, FlopOutputs, Over
    <3> QED BY <3>1 DEF Covers
  <2> QED BY <2>1, <2>2
<1> HIDE DEF all, known
<1>20. \A w \in GivenWires(N) : Covers(Over(known, simulator.constants)[w], Over(all, simulator.constants)[w])
  <2> SUFFICES ASSUME NEW w \in GivenWires(N)
               PROVE  Covers(Over(known, simulator.constants)[w], Over(all, simulator.constants)[w])
    OBVIOUS
  <2>1. DOMAIN known = DOMAIN all
    BY <1>14, <1>18 DEF GivesAll
  <2>2. w \in DOMAIN known \cup DOMAIN simulator.constants
    BY <1>1, <1>18 DEF GivenWires, ConstantWrites
  <2>3. CASE w \in DOMAIN known
    BY <1>19, <2>1, <2>3 DEF Over
  <2>4. CASE w \notin DOMAIN known
    BY <2>1, <2>2, <2>4 DEF Over, Covers
  <2> QED BY <2>3, <2>4
<1> QED BY <1>14, <1>16, <1>17, <1>20 DEF all, known

\* Outputs found static have their values whatever is given for a known encoding.
LEMMA StaticsHoldForWords ==
  ASSUME IsCompiled(simulator), NEW given \in GivenEncodings, StaticsTell(given), NEW pattern \in given,
         NEW all, GivesBits(all), GivesBits(KnownInputs(N, pattern)),
         \A w \in GivenWires(N) : Covers(Over(KnownInputs(N, pattern), simulator.constants)[w],
                                         Over(all, simulator.constants)[w])
  PROVE  StaticsHold(all)
<1> SUFFICES ASSUME NEW o \in GateOutputs, isStatic[o]
             PROVE  Simulated(simulator, all, NoneReplaced)[o[2]] = staticValues[o]
  BY DEF StaticsHold
<1>1. o[2] \in simulator.wires
  BY DEF GateOutputs
<1>2. Covers(Fresh(pattern, o), Simulated(simulator, all, NoneReplaced)[o[2]])
  BY <1>1, SimulationSharpens DEF Fresh
<1>3. Fresh(pattern, o) # "x" /\ staticValues[o] = Fresh(pattern, o)
  BY DEF StaticsTell
<1> QED BY <1>2, <1>3 DEF Covers

\* One clock cycle takes both cores from the same flops to the same flops and outputs.
LEMMA CyclesAlike ==
  ASSUME IsCompiled(simulator), TiesAreConstant, NEW s, IsReduced(s),
         NEW given \in GivenEncodings, StaticsTell(given), NEW pattern \in given,
         NEW word \in Words(pattern), NEW other \in [N.others -> Concrete],
         NEW core, core.flops \in [DOMAIN N.flops -> Bit]
  PROVE  LET input == Over(other, Fetched(word))
         IN  /\ Cycle(simulator, core, input) = Cycle(s, core, input)
             /\ Cycle(simulator, core, input).flops \in [DOMAIN N.flops -> Bit]
<1> DEFINE input == Over(other, Fetched(word))
           all == Over(input, FlopsDrive(core.flops))
           one == Simulated(simulator, all, NoneReplaced)
           two == Simulated(s, all, NoneReplaced)
<1>1. GivesAll(all) /\ GivesBits(all)
  BY PatternsCover
<1>2. StaticsHold(all)
  BY PatternsCover, StaticsHoldForWords
<1>3. s.netlist = ReducedNetlist /\ simulator.netlist = N
  BY ReducedTyped DEF N
<1>4. ReducedNetlist.flops = N.flops /\ ReducedNetlist.outputs = N.outputs
      /\ SequentialOutputWires(ReducedNetlist) = SequentialOutputWires(N)
  BY ReducedParts DEF SequentialOutputWires
<1> HIDE DEF input
<1>5. Cycle(simulator, core, input) = [flops |-> [f \in DOMAIN N.flops |-> ReadSimInput(one, N.flops[f].d)],
                                       outputs |-> [w \in N.outputs |-> one[w]]]
  BY <1>3 DEF Cycle, FlopsDrive
<1>6. Cycle(s, core, input) = [flops |-> [f \in DOMAIN N.flops |-> ReadSimInput(two, N.flops[f].d)],
                               outputs |-> [w \in N.outputs |-> two[w]]]
  BY <1>3, <1>4 DEF Cycle, FlopsDrive
<1> HIDE DEF all
<1>7. \A w \in N.outputs \cup SequentialInputWires(N) : one[w] = two[w] /\ one[w] \in Bit
  <2>1. Len(simulator.order) \in 0 .. Len(simulator.order)
    BY CompiledTyped
  <2>2. \A w \in Driven(simulator, Len(simulator.order)) : one[w] \in Bit
    BY <1>1, <2>1, DrivenAreBits DEF Simulated
  <2> QED BY <1>1, <1>2, <2>2, NeededAgree, ObservedAreNeeded
<1> HIDE DEF one, two
<1>8. \A f \in DOMAIN N.flops : N.flops[f].d \in Concrete \/ N.flops[f].d \in SequentialInputWires(N)
  BY DEF SequentialInputWires
<1>9. \A f \in DOMAIN N.flops : /\ ReadSimInput(one, N.flops[f].d) = ReadSimInput(two, N.flops[f].d)
                                /\ ReadSimInput(one, N.flops[f].d) \in Bit
  BY <1>7, <1>8 DEF ReadSimInput, Concrete, Bit
<1>10. Cycle(simulator, core, input) = Cycle(s, core, input)
  BY SMTT(40), <1>5, <1>6, <1>7, <1>9
<1>11. Cycle(simulator, core, input).flops \in [DOMAIN N.flops -> Bit]
  BY <1>5, <1>9
<1> QED BY <1>10, <1>11 DEF input

------------------------------------------------------------------------------
(* The validation. *)

\* A result is that of the workspace, which knows all encodings of the run.
ValidationInvariant ==
  /\ phase = "simulating" => verdict = ""
  /\ phase \in {"optimized", "running"} => result = Optimization /\ StaticsTell(encodings)
  /\ ValidationMatches

\* What Validate puts in the place of the removed gates.
Replacements ==
  [g \in result.removed |->
     [w \in OutputsOf(N.gates[g]) |-> (CHOOSE a \in result.assignments : a.lhs = w).rhs]]

\* An output of a removed static gate is replaced by its value.
LEMMA StaticsAreProven ==
  ASSUME ValuesInvariant, result = Optimization, StaticsTell(encodings),
         NEW g \in result.removed, g \in StaticGates, NEW w \in OutputsOf(N.gates[g]),
         NEW p \in encodings
  PROVE  Replacements[g][w] = Simulated(simulator, KnownInputs(N, p), NoneReplaced)[w]
<1> DEFINE o == <<g, w>>
           Value(q) == IF isStatic[q] THEN staticValues[q] ELSE "0"
           removed == result.removed
           replaced == {q \in GateOutputs : q[1] \in removed}
<1>1. /\ N \in GivenNetlists /\ simulator.wires = Wires(N) /\ WellDriven(N)
      /\ \A v \in simulator.wires : simulator.aliases[v] = AliasMap(N)[v] /\ v \in simulator.aliases[v]
  BY CompiledTyped, GateUsageAssumption DEF ValuesInvariant, N
<1>2. g \in Gates /\ isStatic[o]
  BY DEF StaticGates
<1>3. OutputsOf(N.gates[g]) \subseteq simulator.wires
  BY <1>1, <1>2, NamesAreWires DEF Gates
<1>4. o \in replaced
  BY <1>2, <1>3 DEF GateOutputs
<1>5. result.assignments = {[lhs |-> q[2], rhs |-> Value(q)] : q \in replaced}
  BY DEF Optimization
<1>6. ASSUME NEW q \in replaced, q[2] = w PROVE q = o
  <2>1. q \in Gates \X simulator.wires /\ w \in OutputsOf(N.gates[q[1]])
    BY <1>6 DEF GateOutputs
  <2>2. CASE q[1] # g
    <3>1. Copies(AliasMap(N), OutputsOf(N.gates[q[1]])) \cap Copies(AliasMap(N), OutputsOf(N.gates[g])) = {}
      BY SMTT(40), <1>1, <1>2, <2>1, <2>2 DEF WellDriven, Gates
    <3>2. w \in Copies(AliasMap(N), OutputsOf(N.gates[q[1]])) /\ w \in Copies(AliasMap(N), OutputsOf(N.gates[g]))
      BY <1>1, <1>3, <2>1 DEF Copies
    <3> QED BY <3>1, <3>2
  <2> QED BY <1>6, <2>1, <2>2
<1>7. \E a \in result.assignments : a.lhs = w
  <2> DEFINE a == [lhs |-> o[2], rhs |-> Value(o)]
  <2>1. a \in result.assignments
    BY <1>4, <1>5
  <2>2. a.lhs = w
    OBVIOUS
  <2> QED BY <2>1, <2>2
<1>8. \A a \in result.assignments : a.lhs = w => a.rhs = Value(o)
  <2> SUFFICES ASSUME NEW a \in result.assignments, a.lhs = w PROVE a.rhs = Value(o)
    OBVIOUS
  <2>1. PICK q \in replaced : a = [lhs |-> q[2], rhs |-> Value(q)]
    BY <1>5
  <2>2. q = o
    BY <1>6, <2>1
  <2> QED BY <2>1, <2>2
<1>9. Replacements[g][w] = Value(o)
  BY <1>7, <1>8 DEF Replacements
<1>10. Value(o) = Fresh(p, o)
  BY <1>2, <1>4 DEF StaticsTell
<1> QED BY <1>9, <1>10 DEF Fresh

\* Every step keeps the validation in accord with the analysis.
LEMMA ValidationStep ==
  ValuesInvariant /\ StaticsInvariant /\ ValidationInvariant /\ [Next]_vars => ValidationInvariant'
<1> SUFFICES ASSUME ValuesInvariant, StaticsInvariant, ValidationInvariant, [Next]_vars
             PROVE  ValidationInvariant'
  OBVIOUS
<1>1. simulator' = simulator
  BY DEF Next, vars, Begin, StartEncoding, SimulateGate, FinishEncoding, Optimize, Validate, PowerUp, Clock
<1>2. N' = N /\ GateOutputs' = GateOutputs
  BY <1>1, SameSimulator
<1> DEFINE Kept == isStatic' = isStatic /\ staticValues' = staticValues /\ encodings' = encodings
<1>3. Kept => (Optimization' = Optimization /\ (StaticsTell(encodings)' <=> StaticsTell(encodings)))
  <2> SUFFICES ASSUME Kept
               PROVE  Optimization' = Optimization /\ (StaticsTell(encodings)' <=> StaticsTell(encodings))
    OBVIOUS
  <2>1. \A p, o : Fresh(p, o)' = Fresh(p, o)
    BY <1>1, <1>2 DEF Fresh
  <2>2. StaticsTell(encodings)' <=> StaticsTell(encodings)
    BY <1>2, <2>1 DEF StaticsTell
  <2> QED BY <1>1, <2>2, SameStatics
<1>4. CASE Begin
  BY <1>4 DEF Begin, ValidationInvariant, ValidationMatches
<1>5. CASE \E pattern \in pending : StartEncoding(pattern)
  BY <1>5 DEF StartEncoding, ValidationInvariant, ValidationMatches
<1>6. CASE SimulateGate
  BY <1>6 DEF SimulateGate, ValidationInvariant, ValidationMatches
<1>7. CASE FinishEncoding
  BY <1>7 DEF FinishEncoding, ValidationInvariant, ValidationMatches
<1>8. CASE Optimize
  <2>1. phase = "simulating" /\ position = 0 /\ pending = {} /\ result' = Optimization /\ phase' = "optimized"
        /\ Kept /\ verdict' = verdict
    BY <1>8 DEF Optimize, workspace, run
  <2>2. StaticsTell(encodings)
    <3>1. encodings \ pending = encodings
      BY <2>1
    <3> QED BY <2>1, <3>1 DEF StaticsInvariant
  <2>3. verdict = ""
    BY <2>1 DEF ValidationInvariant
  <2> QED BY <1>3, <2>1, <2>2, <2>3 DEF ValidationInvariant, ValidationMatches
<1>9. CASE Validate
  <2> DEFINE Original(p) == Simulated(simulator, KnownInputs(N, p), NoneReplaced)
             Proven(p) == \A g \in result.removed : \A w \in OutputsOf(N.gates[g]) :
                            Original(p)[w] = Replacements[g][w]
             Unchanged(p) == LET optimized == Simulated(simulator, KnownInputs(N, p), Replacements)
                             IN  \A w \in simulator.outputs : Original(p)[w] = optimized[w]
  <2>1. /\ phase = "optimized" /\ phase' = phase /\ Kept /\ result' = result
        /\ verdict' = IF \A p \in encodings : Proven(p) /\ Unchanged(p) THEN "accepted"
                      ELSE IF \E p \in encodings : Proven(p) /\ ~Unchanged(p) THEN "output changed"
                      ELSE "replacement rejected"
    BY <1>9 DEF Validate, Replacements, workspace, run
  <2>2. result = Optimization /\ StaticsTell(encodings)
    BY <2>1 DEF ValidationInvariant
  <2>3. result.removed \subseteq DOMAIN N.gates
    BY <2>2, UnobservableAreGates DEF ValuesInvariant, Optimization, RemovableGates, StaticGates, Gates
  <2>4. \A p \in encodings : Proven(p) => Unchanged(p)
    <3> SUFFICES ASSUME NEW p \in encodings, Proven(p) PROVE Unchanged(p)
      OBVIOUS
    <3>1. /\ DOMAIN Replacements = result.removed
          /\ \A g \in DOMAIN Replacements :
               /\ DOMAIN Replacements[g] = OutputsOf(N.gates[g])
               /\ Replacements[g] = [w \in DOMAIN Replacements[g] |-> Replacements[g][w]]
      <4> DEFINE Constants(g) == [w \in OutputsOf(N.gates[g]) |-> (CHOOSE a \in result.assignments : a.lhs = w).rhs]
      <4>1. \A g : DOMAIN Constants(g) = OutputsOf(N.gates[g])
                     /\ Constants(g) = [w \in DOMAIN Constants(g) |-> Constants(g)[w]]
        OBVIOUS
      <4>2. Replacements = [g \in result.removed |-> Constants(g)]
        BY DEF Replacements
      <4> HIDE DEF Constants
      <4> QED BY ZenonT(40), <4>1, <4>2
    <3>2. IsCompiled(simulator)
      BY DEF ValuesInvariant
    <3>3. Simulated(simulator, KnownInputs(N, p), Replacements)
            = Simulated(simulator, KnownInputs(N, p), NoneReplaced)
      BY <2>3, <3>1, <3>2, ReplacedAlike
    <3> QED BY <3>3
  <2>5. ASSUME result.unobservable = {}, NEW p \in encodings PROVE Proven(p)
    <3>1. result.removed \subseteq StaticGates
      BY <2>2, <2>5 DEF Optimization
    <3> QED BY <2>2, <3>1, StaticsAreProven
  <2> HIDE DEF Proven, Unchanged
  <2>6. verdict' # "output changed" /\ (verdict' = "replacement rejected" => result.unobservable # {})
    BY <2>1, <2>4, <2>5
  <2> QED BY <1>3, <2>1, <2>2, <2>6 DEF ValidationInvariant, ValidationMatches
<1>10. CASE PowerUp
  BY <1>3, <1>10 DEF PowerUp, workspace, run, ValidationInvariant, ValidationMatches
<1>11. CASE Clock
  BY <1>3, <1>11 DEF Clock, workspace, run, ValidationInvariant, ValidationMatches
<1>12. CASE UNCHANGED vars
  BY <1>3, <1>12 DEF vars, workspace, run, ValidationInvariant, ValidationMatches
<1> QED BY <1>4, <1>5, <1>6, <1>7, <1>8, <1>9, <1>10, <1>11, <1>12 DEF Next

\* No result changes an output that the validation looks at, and the validation turns
\* down none that removes static gates only.
THEOREM ValidationAgrees == Spec => []ValidationMatches
<1>1. Init => ValidationInvariant
  BY DEF Init, ValidationInvariant, ValidationMatches
<1>2. ValidationInvariant => ValidationMatches
  BY DEF ValidationInvariant
<1> QED BY <1>1, <1>2, ValuesKept, StaticsKept, ValidationStep, PTL DEF Spec

------------------------------------------------------------------------------
(* Both cores run. *)

\* The reduced core is that of the statics, and has been where the original was.
CoresInvariant ==
  /\ phase # "idle" => encodings \in GivenEncodings
  /\ phase \in {"optimized", "running"} => IsReduced(reduced)
  /\ phase = "running" => /\ cores.reduced = cores.original
                          /\ cores.original.flops \in [DOMAIN N.flops -> Bit]

\* Every clock keeps both cores alike on what is needed.
LEMMA CoresStep ==
  ValuesInvariant /\ ValidationInvariant /\ CoresInvariant /\ [Next]_vars => CoresInvariant'
<1> SUFFICES ASSUME ValuesInvariant, ValidationInvariant, CoresInvariant, [Next]_vars PROVE CoresInvariant'
  OBVIOUS
<1>1. simulator' = simulator
  BY DEF Next, vars, Begin, StartEncoding, SimulateGate, FinishEncoding, Optimize, Validate, PowerUp, Clock
<1>2. N' = N
  BY <1>1, SameSimulator
<1>3. ASSUME isStatic' = isStatic, staticValues' = staticValues
      PROVE  IsReduced(reduced)' <=> IsReduced(reduced')
  BY <1>1, <1>3, SameStatics DEF IsReduced
<1>4. CASE Begin
  BY <1>4 DEF Begin, CoresInvariant
<1>5. CASE \E pattern \in pending : StartEncoding(pattern)
  BY <1>5 DEF StartEncoding, CoresInvariant
<1>6. CASE SimulateGate
  BY <1>6 DEF SimulateGate, CoresInvariant
<1>7. CASE FinishEncoding
  BY <1>7 DEF FinishEncoding, CoresInvariant
<1>8. CASE Optimize
  <2>1. /\ phase = "simulating" /\ phase' = "optimized" /\ encodings' = encodings
        /\ isStatic' = isStatic /\ staticValues' = staticValues
        /\ \E order \in SortedOrders(ReducedNetlist) : reduced' = Compiled(ReducedNetlist, order)
    BY <1>8 DEF Optimize, workspace, run, ReducedNetlist
  <2>2. IsReduced(reduced)'
    BY <1>3, <2>1 DEF IsReduced
  <2> QED BY <2>1, <2>2 DEF CoresInvariant
<1>9. CASE Validate
  BY <1>2, <1>3, <1>9 DEF Validate, workspace, run, CoresInvariant
<1>10. CASE PowerUp
  <2>1. /\ phase = "optimized" /\ phase' = "running" /\ encodings' = encodings /\ reduced' = reduced
        /\ isStatic' = isStatic /\ staticValues' = staticValues
    BY <1>10 DEF PowerUp, workspace, run
  <2>2. PICK state \in [DOMAIN N.flops -> Concrete] :
          cores' = [original |-> [flops |-> state, outputs |-> <<>>],
                    reduced |-> [flops |-> state, outputs |-> <<>>]]
    BY <1>10 DEF PowerUp
  <2>3. cores'.reduced = cores'.original /\ cores'.original.flops = state
    BY <2>2
  <2>4. state \in [DOMAIN N.flops -> Bit]
    BY DEF Concrete, Bit
  <2> QED BY <1>2, <1>3, <2>1, <2>3, <2>4 DEF CoresInvariant
<1>11. CASE Clock
  <2>1. /\ phase = "running" /\ phase' = phase /\ encodings' = encodings /\ reduced' = reduced
        /\ isStatic' = isStatic /\ staticValues' = staticValues
    BY <1>11 DEF Clock, workspace, run
  <2>2. PICK pattern \in encodings : \E word \in Words(pattern) : \E other \in [N.others -> Concrete] :
          LET given == Over(other, Fetched(word))
          IN  cores' = [original |-> Cycle(simulator, cores.original, given),
                        reduced |-> Cycle(reduced, cores.reduced, given)]
    BY <1>11 DEF Clock
  <2>3. PICK word \in Words(pattern) : \E other \in [N.others -> Concrete] :
          LET given == Over(other, Fetched(word))
          IN  cores' = [original |-> Cycle(simulator, cores.original, given),
                        reduced |-> Cycle(reduced, cores.reduced, given)]
    BY <2>2
  <2>4. PICK other \in [N.others -> Concrete] :
          LET given == Over(other, Fetched(word))
          IN  cores' = [original |-> Cycle(simulator, cores.original, given),
                        reduced |-> Cycle(reduced, cores.reduced, given)]
    BY <2>3
  <2> DEFINE given == Over(other, Fetched(word))
             core == cores.original
  <2>5. /\ encodings \in GivenEncodings /\ IsReduced(reduced) /\ cores.reduced = core
        /\ core.flops \in [DOMAIN N.flops -> Bit]
    BY <2>1 DEF CoresInvariant
  <2>6. StaticsTell(encodings)
    BY <2>1 DEF ValidationInvariant
  <2>7. TiesAreConstant /\ IsCompiled(simulator)
    BY <2>5, <2>6, StaticsAreConstant DEF ValuesInvariant
  <2> HIDE DEF core
  <2>8. /\ Cycle(simulator, core, given) = Cycle(reduced, core, given)
        /\ Cycle(simulator, core, given).flops \in [DOMAIN N.flops -> Bit]
    BY <2>5, <2>6, <2>7, CyclesAlike
  <2>9. cores' = [original |-> Cycle(simulator, core, given), reduced |-> Cycle(reduced, core, given)]
    BY <2>4, <2>5 DEF core
  <2> HIDE DEF given
  <2>10. cores'.reduced = cores'.original /\ cores'.original.flops \in [DOMAIN N.flops -> Bit]
    BY <2>8, <2>9
  <2> QED BY <1>2, <1>3, <2>1, <2>5, <2>10 DEF CoresInvariant
<1>12. CASE UNCHANGED vars
  BY <1>2, <1>3, <1>12 DEF vars, workspace, run, CoresInvariant
<1> QED BY <1>4, <1>5, <1>6, <1>7, <1>8, <1>9, <1>10, <1>11, <1>12 DEF Next

\* Whatever the flops wake up to and whatever words of the encodings are executed,
\* the core without the removed gates has the flops and outputs of the original.
THEOREM ReducedCoreRunsAlike == Spec => []RunsAlike
<1>1. Init => ValidationInvariant /\ CoresInvariant
  BY DEF Init, ValidationInvariant, ValidationMatches, CoresInvariant
<1>2. CoresInvariant => RunsAlike
  BY DEF CoresInvariant, RunsAlike
<1> QED BY <1>1, <1>2, ValuesKept, StaticsKept, ValidationStep, CoresStep, PTL DEF Spec

==================================================================================
