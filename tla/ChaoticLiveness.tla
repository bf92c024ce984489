--------------------------- MODULE ChaoticLiveness ---------------------------
(***************************************************************************)
(* What a liveness analysis of a graph of basic blocks promises, whatever  *)
(* the order it works in: the live sets only grow, each step adds no more  *)
(* than one block's dataflow equations ask for, and the analysis may stop  *)
(* only when every equation of every block holds.                          *)
(***************************************************************************)
EXTENDS Integers

CONSTANTS
  Registers,  \* the registers of the ISA
  Graphs      \* the block graphs the analysis may be given

VARIABLES
  graph,    \* the blocks: read, consumed, exit and next of each
  liveIn,   \* live_in_regs of each block
  liveOut,  \* live_out_regs of each block
  done      \* the analysis has returned

vars == <<graph, liveIn, liveOut, done>>

Blocks == DOMAIN graph

\* The registers live into some successor of block b.
SuccessorsLiveIn(b) == UNION {liveIn[s] : s \in graph[b].next}

\* The registers live out of b that b does not overwrite.
PassedThrough(b) == liveOut[b] \ graph[b].consumed

(***************************************************************************)
(* A solution of the dataflow inequalities of graph g.                     *)
(***************************************************************************)
IsSolution(g, in, out) ==
  \A b \in DOMAIN g :
    /\ g[b].read \subseteq in[b]
    /\ g[b].exit \subseteq out[b]
    /\ out[b] \ g[b].consumed \subseteq in[b]
    /\ \A s \in g[b].next : in[s] \subseteq out[b]

Init ==
  /\ graph \in Graphs
  /\ liveIn = [b \in Blocks |-> graph[b].read]
  /\ liveOut = [b \in Blocks |-> graph[b].exit]
  /\ done = FALSE

Grow(b) ==
  /\ ~done
  /\ \E in \in SUBSET PassedThrough(b) :
       liveIn' = [liveIn EXCEPT ![b] = @ \cup in]
  /\ \E out \in SUBSET SuccessorsLiveIn(b) :
       liveOut' = [liveOut EXCEPT ![b] = @ \cup out]
  /\ UNCHANGED <<graph, done>>

Stop ==
  /\ ~done
  /\ IsSolution(graph, liveIn, liveOut)
  /\ done' = TRUE
  /\ UNCHANGED <<graph, liveIn, liveOut>>

Next == Stop \/ \E b \in Blocks : Grow(b)

Spec == Init /\ [][Next]_vars
==============================================================================
