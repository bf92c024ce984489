--------------------------- MODULE LivelinessProofs ---------------------------
(***************************************************************************)
(* Proofs about compute_liveliness, for every finite set of registers and  *)
(* every set of well-formed block graphs.                                  *)
(***************************************************************************)
EXTENDS Liveliness, FiniteSetTheorems, TLAPS

(***************************************************************************)
(* Facts about one graph and about the change test.                        *)
(***************************************************************************)

\* The types, for any graph that is well formed: what calls compute_liveliness need not
\* say which graphs it may give it.
Shaped ==
  /\ WellFormed(graph)
  /\ liveIn \in [Blocks -> SUBSET Registers]
  /\ liveOut \in [Blocks -> SUBSET Registers]
  /\ idx \in 1 .. BlockCount + 1
  /\ changed \in BOOLEAN
  /\ done \in BOOLEAN

LoopFacts == Shaped /\ SeedsKept /\ QuietPrefix /\ ReturnedQuiet

\* A well-formed graph numbers its blocks from 1 and stays inside them.
LEMMA GraphShape ==
  ASSUME WellFormed(graph)
  PROVE  /\ BlockCount \in Nat
         /\ Blocks = 1 .. BlockCount
         /\ \A b \in Blocks :
              /\ graph[b].read \subseteq Registers
              /\ graph[b].exit \subseteq Registers
              /\ graph[b].next \subseteq Blocks
BY DEF WellFormed, Blocks, BlockCount

\* The invariant of the loop is that its facts hold of one of the graphs.
LEMMA InvariantIsFacts == LoopInvariant <=> graph \in Graphs /\ LoopFacts
BY GraphsAssumption DEF LoopInvariant, LoopFacts, TypeOK, Shaped

\* The registers live into the successors of a block are registers.
LEMMA SuccessorsTyped ==
  ASSUME Shaped, NEW b \in Blocks
  PROVE  SuccessorsLiveIn(b) \subseteq Registers
BY GraphShape DEF Shaped, SuccessorsLiveIn

\* A set of registers that was extended and kept its size was not changed.
LEMMA SameSizeSameSet ==
  ASSUME NEW S \in SUBSET Registers, NEW T \in SUBSET Registers,
         Cardinality(S \cup T) = Cardinality(S)
  PROVE  T \subseteq S
<1>1. IsFiniteSet(S \cup T)
  BY RegistersAssumption, FS_Subset
<1>2. S \cup T = S
  BY <1>1, FS_Subset, S \in SUBSET (S \cup T)
<1>3. QED
  BY <1>2

(***************************************************************************)
(* The loop invariant.                                                     *)
(***************************************************************************)

\* What both constructors leave.
Begins ==
  /\ liveIn = [b \in Blocks |-> graph[b].read]
  /\ liveOut = [b \in Blocks |-> graph[b].exit]
  /\ idx = 1
  /\ changed = FALSE
  /\ done = FALSE

\* The first pass begins with the seeds of both constructors.
LEMMA FactsAtFirst == WellFormed(graph) /\ Begins => LoopFacts
<1> SUFFICES ASSUME WellFormed(graph), Begins PROVE LoopFacts
  OBVIOUS
<1>1. Shaped
  <2>2. /\ BlockCount \in Nat
        /\ \A b \in Blocks : /\ graph[b].read \subseteq Registers
                            /\ graph[b].exit \subseteq Registers
    BY GraphShape
  <2>3. liveIn \in [Blocks -> SUBSET Registers] /\ liveOut \in [Blocks -> SUBSET Registers]
    BY <2>2 DEF Begins
  <2>4. idx \in 1 .. BlockCount + 1
    BY <2>2 DEF Begins
  <2>5. QED
    BY <2>3, <2>4 DEF Begins, Shaped
<1>2. SeedsKept
  BY DEF Begins, SeedsKept
<1>3. QuietPrefix
  BY GraphShape DEF Begins, QuietPrefix
<1>4. ReturnedQuiet
  BY DEF Begins, ReturnedQuiet
<1>5. QED
  BY <1>1, <1>2, <1>3, <1>4 DEF LoopFacts

\* A visit keeps the types: it adds registers only.
LEMMA VisitType ==
  ASSUME Shaped, VisitBlock
  PROVE  Shaped'
<1>1. graph' = graph /\ Blocks' = Blocks /\ BlockCount' = BlockCount
  BY DEF VisitBlock, NewLiveIn, NewLiveOut, VisitChanges, Blocks, BlockCount
<1>2. liveIn' \in [Blocks -> SUBSET Registers]
  BY DEF VisitBlock, NewLiveIn, NewLiveOut, VisitChanges, Shaped
<1>3. liveOut' \in [Blocks -> SUBSET Registers]
  BY SuccessorsTyped DEF VisitBlock, NewLiveIn, NewLiveOut, VisitChanges, Shaped
<1>4. idx' \in 1 .. BlockCount + 1
  <2>1. BlockCount \in Nat /\ Blocks = 1 .. BlockCount
    BY GraphShape DEF Shaped
  <2>2. QED
    BY <2>1 DEF VisitBlock, NewLiveIn, NewLiveOut, VisitChanges
<1>5. changed' \in BOOLEAN /\ done' \in BOOLEAN
  BY DEF VisitBlock, NewLiveIn, NewLiveOut, VisitChanges, Shaped
<1>6. QED
  BY <1>1, <1>2, <1>3, <1>4, <1>5 DEF Shaped

\* A visit that leaves changed FALSE leaves every set as it was, and the block
\* it visited then satisfies its equations.
LEMMA QuietVisit ==
  ASSUME Shaped, VisitBlock, ~changed'
  PROVE  ~changed /\ liveIn' = liveIn /\ liveOut' = liveOut /\ Balanced(idx)
<1>1. /\ idx \in Blocks
      /\ liveIn' = [liveIn EXCEPT ![idx] = NewLiveIn(idx)]
      /\ liveOut' = [liveOut EXCEPT ![idx] = NewLiveOut(idx)]
      /\ ~VisitChanges(idx)
  BY DEF VisitBlock
<1>2. /\ ~changed
      /\ Cardinality(NewLiveIn(idx)) = Cardinality(liveIn[idx])
      /\ Cardinality(NewLiveOut(idx)) = Cardinality(liveOut[idx])
  BY <1>1 DEF VisitChanges
<1>3. /\ liveIn[idx] \in SUBSET Registers
      /\ liveOut[idx] \in SUBSET Registers
      /\ SuccessorsLiveIn(idx) \in SUBSET Registers
  BY <1>1, SuccessorsTyped DEF Shaped
<1>4. liveOut[idx] \ graph[idx].consumed \subseteq liveIn[idx] /\ NewLiveIn(idx) = liveIn[idx]
  <2>1. liveOut[idx] \ graph[idx].consumed \in SUBSET Registers
    BY <1>3
  <2> QED BY <1>2, <1>3, <2>1, SameSizeSameSet DEF NewLiveIn
<1>5. SuccessorsLiveIn(idx) \subseteq liveOut[idx] /\ NewLiveOut(idx) = liveOut[idx]
  BY <1>2, <1>3, SameSizeSameSet DEF NewLiveOut
<1>6. liveIn' = liveIn /\ liveOut' = liveOut
  BY <1>1, <1>4, <1>5 DEF Shaped
<1>7. QED
  BY <1>2, <1>4, <1>5, <1>6 DEF Balanced

\* Every visit, every new pass and the return keep the loop invariant.
LEMMA FactsKept == LoopFacts /\ [Next]_vars => LoopFacts'
<1> SUFFICES ASSUME LoopFacts, [Next]_vars PROVE LoopFacts'
  OBVIOUS
<1> USE DEF LoopFacts
<1>1. CASE VisitBlock
  <2>1. Shaped'
    BY <1>1, VisitType
  <2>2. SeedsKept'
    BY <1>1 DEF VisitBlock, NewLiveIn, NewLiveOut, VisitChanges, SeedsKept, Shaped, Blocks
  <2>3. QuietPrefix'
    <3> SUFFICES ASSUME ~changed', NEW b \in Blocks, b < idx'
                 PROVE  Balanced(b)'
      BY <1>1 DEF QuietPrefix, VisitBlock, NewLiveIn, NewLiveOut, VisitChanges, Blocks
    <3>1. ~changed /\ liveIn' = liveIn /\ liveOut' = liveOut /\ Balanced(idx)
      BY <1>1, QuietVisit
    <3>2. b < idx \/ b = idx
      BY <1>1, GraphShape DEF VisitBlock, NewLiveIn, NewLiveOut, VisitChanges, Shaped
    <3>3. Balanced(b)
      BY <3>1, <3>2 DEF QuietPrefix
    <3>4. QED
      BY <1>1, <3>1, <3>3 DEF VisitBlock, NewLiveIn, NewLiveOut,
         Balanced, SuccessorsLiveIn
  <2>4. ReturnedQuiet'
    BY <1>1 DEF VisitBlock, NewLiveIn, NewLiveOut, VisitChanges, ReturnedQuiet
  <2>5. QED
    BY <2>1, <2>2, <2>3, <2>4
<1>2. CASE NextPass
  <2>1. Shaped'
    <3>1. BlockCount \in Nat
      BY GraphShape DEF Shaped
    <3>2. BlockCount' = BlockCount /\ Blocks' = Blocks
      BY <1>2 DEF NextPass, Blocks, BlockCount
    <3>3. idx' \in 1 .. BlockCount' + 1
      BY <1>2, <3>1, <3>2 DEF NextPass
    <3>4. QED
      BY <1>2, <3>2, <3>3 DEF NextPass, Shaped
  <2>2. SeedsKept'
    BY <1>2 DEF NextPass, SeedsKept, Blocks
  <2>3. QuietPrefix'
    BY <1>2, GraphShape DEF NextPass, QuietPrefix, Shaped, Blocks
  <2>4. ReturnedQuiet'
    BY <1>2 DEF NextPass, ReturnedQuiet
  <2>5. QED
    BY <2>1, <2>2, <2>3, <2>4
<1>3. CASE Return
  <2>1. Shaped' /\ SeedsKept'
    BY <1>3 DEF Return, Shaped, SeedsKept, Blocks, BlockCount
  <2>2. QuietPrefix'
    BY <1>3 DEF Return, QuietPrefix, Balanced, SuccessorsLiveIn, Blocks
  <2>3. ReturnedQuiet'
    BY <1>3 DEF Return, ReturnedQuiet, Blocks
  <2>4. QED
    BY <2>1, <2>2, <2>3
<1>4. CASE UNCHANGED vars
  BY <1>4 DEF vars, Shaped, SeedsKept, QuietPrefix, ReturnedQuiet, Balanced,
              SuccessorsLiveIn, Blocks, BlockCount
<1>5. QED
  BY <1>1, <1>2, <1>3, <1>4 DEF Next

\* The block graph does not change while the loop runs.
LEMMA GraphUnchanged == [Next]_vars => graph' = graph /\ Blocks' = Blocks
BY DEF Next, VisitBlock, NewLiveIn, NewLiveOut, NextPass, Return, vars, Blocks

\* The loop invariant of compute_liveliness: live sets hold registers, the
\* seeds stay in, and a pass that changed nothing so far has left every block
\* behind it balanced.
THEOREM LoopInvariantHolds == Spec => []LoopInvariant
<1>1. Init => LoopInvariant
  BY FactsAtFirst, InvariantIsFacts, GraphsAssumption DEF Init, Begins
<1>2. LoopInvariant /\ [Next]_vars => LoopInvariant'
  <2>1. (LoopInvariant <=> graph \in Graphs /\ LoopFacts)'
    BY InvariantIsFacts, PTL
  <2> QED BY <2>1, FactsKept, InvariantIsFacts, GraphUnchanged
<1>3. QED
  BY <1>1, <1>2, PTL DEF Spec

\* Every state of the loop is well typed.
THEOREM TypeCorrect == Spec => []TypeOK
<1>1. LoopInvariant => TypeOK
  BY DEF LoopInvariant
<1>2. QED
  BY <1>1, LoopInvariantHolds, PTL

\* Balanced blocks everywhere, with the seeds kept, are a solution.
LEMMA QuietIsSolution ==
  ASSUME LoopFacts, ~changed, idx \notin Blocks
  PROVE  Chaotic!IsSolution(graph, liveIn, liveOut)
<1>1. \A b \in Blocks : b < idx
  BY GraphShape DEF LoopFacts, Shaped
<1>2. \A b \in Blocks : Balanced(b)
  BY <1>1 DEF LoopFacts, QuietPrefix
<1>3. QED
  BY <1>2 DEF LoopFacts, SeedsKept, Balanced, SuccessorsLiveIn, Blocks,
              Chaotic!IsSolution

\* compute_liveliness returns only when every dataflow equation of every block
\* holds: partial correctness of the loop, for all programs.
THEOREM ReturnsSolutionHolds == Spec => []ReturnsSolution
<1>1. LoopInvariant => ReturnsSolution
  BY QuietIsSolution, InvariantIsFacts DEF ReturnsSolution, LoopInvariant, ReturnedQuiet
<1>2. QED
  BY <1>1, LoopInvariantHolds, PTL

(***************************************************************************)
(* What is returned is the least solution.                                 *)
(***************************************************************************)

\* A visit to a block stays below a solution if the sets were below it.
LEMMA VisitStaysBelow ==
  ASSUME Shaped, VisitBlock,
         NEW in \in [Blocks -> SUBSET Registers],
         NEW out \in [Blocks -> SUBSET Registers],
         Chaotic!IsSolution(graph, in, out),
         \A b \in Blocks : liveIn[b] \subseteq in[b] /\ liveOut[b] \subseteq out[b]
  PROVE  \A b \in Blocks : liveIn'[b] \subseteq in[b] /\ liveOut'[b] \subseteq out[b]
<1>1. idx \in Blocks
  BY DEF VisitBlock, NewLiveIn, NewLiveOut, VisitChanges
<1>2. liveOut[idx] \ graph[idx].consumed \subseteq in[idx]
  BY <1>1 DEF Chaotic!IsSolution, Blocks
<1>3. SuccessorsLiveIn(idx) \subseteq out[idx]
  <2>1. \A s \in graph[idx].next : s \in Blocks /\ in[s] \subseteq out[idx]
    BY <1>1, GraphShape DEF Shaped, Chaotic!IsSolution, Blocks
  <2>2. \A s \in graph[idx].next : liveIn[s] \subseteq out[idx]
    BY <2>1
  <2>3. QED
    BY <2>2 DEF SuccessorsLiveIn
<1>4. QED
  BY <1>1, <1>2, <1>3 DEF VisitBlock, NewLiveIn, NewLiveOut, VisitChanges, Shaped

\* A visit adds only what every solution of the equations has.
LEMMA NextBelowEverySolution ==
  Shaped /\ BelowEverySolution /\ [Next]_vars => BelowEverySolution'
<1> SUFFICES ASSUME Shaped, BelowEverySolution, [Next]_vars,
                    NEW in \in [Blocks -> SUBSET Registers],
                    NEW out \in [Blocks -> SUBSET Registers],
                    Chaotic!IsSolution(graph, in, out)
             PROVE  \A b \in Blocks : liveIn'[b] \subseteq in[b]
                                    /\ liveOut'[b] \subseteq out[b]
  BY GraphUnchanged DEF BelowEverySolution, Chaotic!IsSolution
<1>1. \A b \in Blocks : liveIn[b] \subseteq in[b] /\ liveOut[b] \subseteq out[b]
  BY DEF BelowEverySolution
<1>2. CASE VisitBlock
  BY <1>1, <1>2, VisitStaysBelow
<1>3. CASE NextPass \/ Return \/ UNCHANGED vars
  BY <1>1, <1>3 DEF NextPass, Return, vars
<1>4. QED
  BY <1>2, <1>3 DEF Next

\* The live sets never exceed any solution of the dataflow equations.  With
\* ReturnsSolutionHolds: compute_liveliness returns the least solution, so a
\* register it leaves out of live_out is one the program does not need.
THEOREM BelowEverySolutionHolds == Spec => []BelowEverySolution
<1>1. Init => BelowEverySolution
  BY DEF Init, BelowEverySolution, Chaotic!IsSolution, Blocks
<1>2. QED
  <2>1. TypeOK => Shaped
    BY GraphsAssumption DEF TypeOK, Shaped
  <2> QED BY <1>1, <2>1, NextBelowEverySolution, TypeCorrect, PTL DEF Spec

(***************************************************************************)
(* The loop implements the abstract analysis.                              *)
(***************************************************************************)

\* A visit is a step of the abstract analysis at its block.
LEMMA VisitIsGrow == TypeOK /\ VisitBlock => Chaotic!Grow(idx)
<1> SUFFICES ASSUME TypeOK, VisitBlock PROVE Chaotic!Grow(idx)
  OBVIOUS
<1>1. liveOut[idx] \ graph[idx].consumed \in SUBSET Chaotic!PassedThrough(idx)
  BY DEF Chaotic!PassedThrough
<1>2. SuccessorsLiveIn(idx) \in SUBSET Chaotic!SuccessorsLiveIn(idx)
  BY DEF SuccessorsLiveIn, Chaotic!SuccessorsLiveIn
<1>3. QED
  BY <1>1, <1>2 DEF VisitBlock, NewLiveIn, NewLiveOut, VisitChanges, Chaotic!Grow

\* Every step of the passes is one of the abstract analysis, or none.
LEMMA StepImplementsChaotic ==
  LoopInvariant /\ [Next]_vars => [Chaotic!Next]_(Chaotic!vars)
<1> SUFFICES ASSUME LoopInvariant, [Next]_vars
             PROVE  [Chaotic!Next]_(Chaotic!vars)
  OBVIOUS
<1>1. CASE VisitBlock
  <2>1. Chaotic!Grow(idx)
    BY <1>1, VisitIsGrow DEF LoopInvariant
  <2>2. QED
    BY <1>1, <2>1 DEF Chaotic!Next, Chaotic!Blocks, VisitBlock, Blocks
<1>2. CASE NextPass
  BY <1>2 DEF NextPass, Chaotic!vars
<1>3. CASE Return
  <2>1. Chaotic!IsSolution(graph, liveIn, liveOut)
    BY <1>3, QuietIsSolution, InvariantIsFacts DEF Return
  <2>2. QED
    BY <1>3, <2>1 DEF Return, Chaotic!Stop, Chaotic!Next
<1>4. CASE UNCHANGED vars
  BY <1>4 DEF vars, Chaotic!vars
<1>5. QED
  BY <1>1, <1>2, <1>3, <1>4 DEF Next

\* compute_liveliness is one way of running the abstract analysis: it grows
\* one block at a time by what its equations ask, and stops on a solution.
THEOREM Implementation == Spec => ImplementsChaotic
<1>1. Init => Chaotic!Init
  BY DEF Init, Chaotic!Init, Chaotic!Blocks, Blocks
<1>2. QED
  BY <1>1, StepImplementsChaotic, LoopInvariantHolds, PTL
  DEF Spec, ImplementsChaotic, Chaotic!Spec

\* No step takes a register out of a live set.
THEOREM GrowthHolds == Spec => SetsOnlyGrow
<1>1. TypeOK /\ [Next]_vars =>
        [GrowthStep]_vars
  BY DEF GrowthStep, TypeOK, Next, VisitBlock, NewLiveIn, NewLiveOut, NextPass, Return, vars
<1>2. QED
  BY <1>1, TypeCorrect, PTL DEF Spec, SetsOnlyGrow
==============================================================================
