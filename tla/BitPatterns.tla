------------------------------ MODULE BitPatterns ------------------------------
(***************************************************************************)
(* BitPattern of bit.rs: a cube of bit vectors of one width, and the       *)
(* operations the ISA optimizer does on cubes.  A pattern is a sequence of *)
(* "0", "1" and "x" (Low, High, Var), and bit 0 of the code's vector is    *)
(* position 1.  Bit::Test is a probe of the gate simulation and never part *)
(* of the uses of a field.                                                 *)
(***************************************************************************)
EXTENDS Integers, FiniteSets, SequencesExt

Bit == {"0", "1", "x"}
Concrete == {"0", "1"}

Not(b) == IF b = "0" THEN "1" ELSE IF b = "1" THEN "0" ELSE b

VariableIn(p) == {i \in DOMAIN p : p[i] = "x"}

\* covers, and cube_covers which calls it
Covers(p, q) == DOMAIN p = DOMAIN q /\ \A i \in DOMAIN p : p[i] = "x" \/ p[i] = q[i]

ValuesOf(p) == {v \in [DOMAIN p -> Concrete] : Covers(p, v)}
Coverage(ps) == UNION {ValuesOf(p) : p \in ps}

Opposed(p, q, i) == {p[i], q[i]} = Concrete

\* Two patterns merge when they differ in exactly one bit, concrete in both.
CanMergeWith(p, q) ==
  /\ DOMAIN p = DOMAIN q
  /\ \E i \in DOMAIN p : Opposed(p, q, i) /\ \A j \in DOMAIN p \ {i} : p[j] = q[j]

MergeWith(p, q) == [i \in DOMAIN p |-> IF p[i] = q[i] THEN p[i] ELSE "x"]

CubeDisjoint(p, q) == \E i \in DOMAIN p : Opposed(p, q, i)

(***************************************************************************)
(* cube_subtract: one step of it, and what its recursion amounts to.       *)
(***************************************************************************)

\* Where p is variable and q concrete.
SplitPositions(p, q) == {i \in DOMAIN p : p[i] = "x" /\ q[i] # "x"}

\* The recursion goes through the split positions from the first to the last.
\* At position i it keeps the half of p outside q, having moved inside q at the
\* positions before.
Outside(p, q, i) ==
  [j \in DOMAIN p |-> IF j = i THEN Not(q[i])
                   ELSE IF j \in SplitPositions(p, q) /\ j < i THEN q[j] ELSE p[j]]

BadCubeSubtract(p, q) ==
  IF CubeDisjoint(p, q) THEN {p}
  ELSE {[p EXCEPT ![i] = q[i]] : i \in SplitPositions(p, q)}

CubeSubtract(p, q) ==
  IF CubeDisjoint(p, q) THEN {p}
  ELSE {Outside(p, q, i) : i \in SplitPositions(p, q)}

(***************************************************************************)
(* The steps of FieldUses::merge (isa_specification.rs).                   *)
(***************************************************************************)

BadRemoveSubsumed(ps) == {p \in ps : ~\E q \in ps : Covers(q, p)}

\* remove_subsumed
RemoveSubsumed(ps) == {p \in ps : ~\E q \in ps : q # p /\ Covers(q, p)}

Mergeable(ps) == {p \in ps : \E q \in ps : CanMergeWith(p, q)}

\* One round tries every pair.  The code visits a pair in one order only;
\* can_merge_with and merge_with are symmetric.
Merged(ps) ==
  {MergeWith(pq[1], pq[2]) : pq \in {r \in ps \X ps : CanMergeWith(r[1], r[2])}}

BadNextRound(ps) == (ps \ Mergeable(ps)) \cup Merged(ps)

NextRound(ps) == RemoveSubsumed((ps \ Mergeable(ps)) \cup Merged(ps))
==============================================================================
