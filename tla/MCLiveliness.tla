----------------------------- MODULE MCLiveliness -----------------------------
(***************************************************************************)
(* Liveliness on every graph of NumBlocks blocks in which a block falls    *)
(* through to the next one and may branch anywhere.                        *)
(***************************************************************************)
EXTENDS Liveliness

CONSTANTS NumBlocks, MCRegisters

Seeds == SUBSET MCRegisters

FallThrough(b) == IF b = NumBlocks THEN {} ELSE {b + 1}

\* A block branches to at most one other place: only its last instruction may
\* be a branch.
Nexts(b) == {FallThrough(b)} \cup {FallThrough(b) \cup {t} : t \in 1 .. NumBlocks}

BlockShapes(b) ==
  [read : Seeds, consumed : Seeds, exit : {{}, MCRegisters}, next : Nexts(b)]

MCGraphs ==
  {g \in [1 .. NumBlocks -> UNION {BlockShapes(b) : b \in 1 .. NumBlocks}] :
     \A b \in 1 .. NumBlocks : g[b] \in BlockShapes(b)}
==============================================================================
