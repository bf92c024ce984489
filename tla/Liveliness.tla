------------------------------ MODULE Liveliness ------------------------------
(***************************************************************************)
(* ProgramAnalysis::compute_liveliness: passes over the blocks in program  *)
(* order until one pass leaves the size of every live set as it was.       *)
(*                                                                         *)
(* A definition whose name begins with Bad is a mistake that one could     *)
(* make in the definition below it; README.md says what they are for.      *)
(*                                                                         *)
(* One step is the body of the inner loop for one block.  The order inside *)
(* the body matters: the successors' live-in sets are collected first,     *)
(* live_in is then extended from the OLD live_out, and live_out last.      *)
(***************************************************************************)
EXTENDS Integers, Sequences, FiniteSets

CONSTANTS
  Registers,  \* the registers of the ISA
  Graphs      \* the block graphs the analysis may be given

\* Blocks are numbered from 1, edges stay inside the graph and a block speaks
\* of registers of the ISA only.
WellFormed(g) ==
  /\ Len(g) \in Nat
  /\ DOMAIN g = 1 .. Len(g)
  /\ \A b \in DOMAIN g :
       /\ g[b].read \subseteq Registers
       /\ g[b].exit \subseteq Registers
       /\ g[b].next \subseteq DOMAIN g

ASSUME RegistersAssumption == IsFiniteSet(Registers)
ASSUME GraphsAssumption == \A g \in Graphs : WellFormed(g)

VARIABLES
  graph,    \* the blocks: read, consumed, exit and next of each
  liveIn,   \* live_in_regs of each block
  liveOut,  \* live_out_regs of each block
  idx,      \* the block the pass looks at next
  changed,  \* whether this pass has changed a set
  done      \* compute_liveliness has returned

vars == <<graph, liveIn, liveOut, idx, changed, done>>

Chaotic == INSTANCE ChaoticLiveness

Blocks == DOMAIN graph
BlockCount == Len(graph)
BadSuccessorsLiveIn(b) == UNION {liveOut[s] : s \in graph[b].next}
SuccessorsLiveIn(b) == UNION {liveIn[s] : s \in graph[b].next}

Init ==
  /\ graph \in Graphs
  /\ liveIn = [b \in Blocks |-> graph[b].read]
  /\ liveOut = [b \in Blocks |-> graph[b].exit]
  /\ idx = 1
  /\ changed = FALSE
  /\ done = FALSE

\* The set the visit of b leaves in live_in_regs, from the OLD live_out_regs.
NewLiveIn(b) == liveIn[b] \cup (liveOut[b] \ graph[b].consumed)

BadNewLiveOut(b) == SuccessorsLiveIn(b)
NewLiveOut(b) == liveOut[b] \cup SuccessorsLiveIn(b)

BadVisitChangesForgets(b) == NewLiveOut(b) # liveOut[b]
BadVisitChangesRecollects(b) == changed \/ SuccessorsLiveIn(b) # liveOut[b]

\* The code compares the lengths of the two sets before and after.
VisitChanges(b) ==
  \/ changed
  \/ Cardinality(NewLiveIn(b)) # Cardinality(liveIn[b])
  \/ Cardinality(NewLiveOut(b)) # Cardinality(liveOut[b])

VisitBlock ==
  /\ ~done
  /\ idx \in Blocks
  /\ liveIn' = [liveIn EXCEPT ![idx] = NewLiveIn(idx)]
  /\ liveOut' = [liveOut EXCEPT ![idx] = NewLiveOut(idx)]
  /\ changed' = VisitChanges(idx)
  /\ idx' = idx + 1
  /\ UNCHANGED <<graph, done>>

NextPass ==
  /\ ~done
  /\ idx \notin Blocks
  /\ changed
  /\ idx' = 1
  /\ changed' = FALSE
  /\ UNCHANGED <<graph, liveIn, liveOut, done>>

Return ==
  /\ ~done
  /\ idx \notin Blocks
  /\ ~changed
  /\ done' = TRUE
  /\ UNCHANGED <<graph, liveIn, liveOut, idx, changed>>

Next == VisitBlock \/ NextPass \/ Return

Spec == Init /\ [][Next]_vars

\* The loop is sequential code with no blocking call: it keeps running.
FairSpec == Spec /\ WF_vars(Next)

------------------------------------------------------------------------------

\* Every state component stays in its domain: live sets hold registers of the
\* ISA, and the pass is at a block or just past the last one.
TypeOK ==
  /\ graph \in Graphs
  /\ liveIn \in [Blocks -> SUBSET Registers]
  /\ liveOut \in [Blocks -> SUBSET Registers]
  /\ idx \in 1 .. BlockCount + 1
  /\ changed \in BOOLEAN
  /\ done \in BOOLEAN

\* The sets a block starts with are never lost.
SeedsKept ==
  \A b \in Blocks : graph[b].read \subseteq liveIn[b] /\ graph[b].exit \subseteq liveOut[b]

\* The two equations compute_liveliness works towards, for one block.
Balanced(b) ==
  /\ liveOut[b] \ graph[b].consumed \subseteq liveIn[b]
  /\ SuccessorsLiveIn(b) \subseteq liveOut[b]

\* While a pass has changed nothing, every block it has passed satisfies its
\* equations: this is what makes one quiet pass a sound reason to stop.
QuietPrefix == ~changed => \A b \in Blocks : b < idx => Balanced(b)

\* A returned analysis has visited every block in a pass without a change.
ReturnedQuiet == done => ~changed /\ idx \notin Blocks

\* The invariant of compute_liveliness: the domains, and the three facts above.
LoopInvariant == TypeOK /\ SeedsKept /\ QuietPrefix /\ ReturnedQuiet

\* When compute_liveliness returns, every dataflow equation of every block
\* holds, although the loop extends live_in from the live_out of before the
\* visit and detects changes by comparing set sizes.
ReturnsSolution == done => Chaotic!IsSolution(graph, liveIn, liveOut)

\* No register is ever called live that some solution of the equations does
\* not need: the sets stay below every solution (so what is returned is the
\* least one, and a register missing from live_out may be overwritten).
BelowEverySolution ==
  \A in, out \in [Blocks -> SUBSET Registers] :
    Chaotic!IsSolution(graph, in, out) =>
      \A b \in Blocks : liveIn[b] \subseteq in[b] /\ liveOut[b] \subseteq out[b]

GrowthStep ==
  \A b \in Blocks : liveIn[b] \subseteq liveIn'[b] /\ liveOut[b] \subseteq liveOut'[b]

\* A step never takes a register out of a live set (the code compares lengths,
\* which is a comparison of sets only because of this).
SetsOnlyGrow == [][GrowthStep]_vars

\* The loop is a way of running the abstract analysis.
ImplementsChaotic == Chaotic!Spec

\* compute_liveliness returns.
Terminates == <>done
==============================================================================
