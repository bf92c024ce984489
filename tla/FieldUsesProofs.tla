---------------------------- MODULE FieldUsesProofs ----------------------------
(***************************************************************************)
(* cube_subtract is exact, FieldUses::merge keeps the values of a field,   *)
(* and a mutation moves at most one of them, for fields of any width.      *)
(* The loops of the merge and of the subtraction end: every round of one   *)
(* widens a pattern, and every call of the other shrinks what is left.     *)
(***************************************************************************)
EXTENDS MCFieldUses, Recursion

(***************************************************************************)
(* cube_subtract.                                                          *)
(***************************************************************************)

\* The complement of a bit is the other bit.
LEMMA ConcreteNot ==
  ASSUME NEW b \in Concrete
  PROVE  Not(b) \in Concrete /\ Not(b) # b /\ Concrete = {b, Not(b)}
BY DEF Not, Concrete

\* The positions of the patterns and values of the field.
LEMMA Domains ==
  /\ \A p \in Patterns : DOMAIN p = Index
  /\ \A v \in Values : DOMAIN v = Index
BY DEF Patterns, Values

\* The values of a pattern are those it covers.
LEMMA ValuesAre ==
  \A p \in Patterns : ValuesOf(p) = {v \in Values : Covers(p, v)}
BY DEF ValuesOf, Values, Patterns

\* Covering position by position.
LEMMA CoversAre ==
  \A p \in Patterns : \A v \in Patterns \cup Values :
    Covers(p, v) <=> \A k \in Index : p[k] = "x" \/ p[k] = v[k]
BY Domains DEF Covers

\* The positions the recursion chooses from.
LEMMA PositionsAre ==
  \A p \in Patterns :
    /\ VariableIn(p) = {k \in Index : p[k] = "x"}
    /\ \A q : SplitPositions(p, q) = {k \in Index : p[k] = "x" /\ q[k] # "x"}
BY Domains DEF VariableIn, SplitPositions

\* Splitting a cube in two at a variable position: the halves share the values
\* of the cube out.
LEMMA Halves ==
  ASSUME NEW p \in Patterns, NEW i \in Index, p[i] = "x", NEW b \in Concrete
  PROVE  /\ [p EXCEPT ![i] = b] \in Patterns
         /\ [p EXCEPT ![i] = Not(b)] \in Patterns
         /\ ValuesOf(p) = ValuesOf([p EXCEPT ![i] = b]) \cup ValuesOf([p EXCEPT ![i] = Not(b)])
         /\ ValuesOf([p EXCEPT ![i] = b]) \cap ValuesOf([p EXCEPT ![i] = Not(b)]) = {}
<1> DEFINE in == [p EXCEPT ![i] = b]
           out == [p EXCEPT ![i] = Not(b)]
<1>1. in \in Patterns /\ out \in Patterns
  BY ConcreteNot DEF Patterns, Bit, Concrete
<1>2. ASSUME NEW v \in Values
      PROVE  /\ Covers(p, v) <=> Covers(in, v) \/ Covers(out, v)
             /\ ~(Covers(in, v) /\ Covers(out, v))
  <2>1. v[i] = b \/ v[i] = Not(b)
    BY ConcreteNot DEF Values
  <2>2. b # "x" /\ Not(b) # "x" /\ b # Not(b)
    BY ConcreteNot DEF Concrete
  <2>3. in[i] = b /\ out[i] = Not(b) /\ \A j \in Index \ {i} : in[j] = p[j] /\ out[j] = p[j]
    BY DEF Patterns
  <2> HIDE DEF in, out
  <2>4. Covers(in, v) => v[i] = b
    BY CoversAre, <1>1, <2>2, <2>3
  <2>5. Covers(out, v) => v[i] = Not(b)
    BY CoversAre, <1>1, <2>2, <2>3
  <2>6. Covers(in, v) \/ Covers(out, v) => Covers(p, v)
    BY CoversAre, <1>1, <2>3
  <2>7. Covers(p, v) /\ v[i] = b => Covers(in, v)
    BY CoversAre, <1>1, <2>3
  <2>8. Covers(p, v) /\ v[i] = Not(b) => Covers(out, v)
    BY CoversAre, <1>1, <2>3
  <2> QED BY <2>1, <2>2, <2>4, <2>5, <2>6, <2>7, <2>8
<1> QED BY Domains, <1>1, <1>2, ValuesAre

\* Cubes with opposite bits at a position share no value.
LEMMA OpposedValues ==
  ASSUME NEW p \in Patterns, NEW q \in Patterns, CubeDisjoint(p, q)
  PROVE  ValuesOf(p) \cap ValuesOf(q) = {}
<1>1. PICK i \in Index : Opposed(p, q, i)
  BY Domains DEF CubeDisjoint
<1>2. p[i] # q[i] /\ p[i] # "x" /\ q[i] # "x"
  BY <1>1 DEF Opposed, Concrete
<1>3. ASSUME NEW v \in Values, Covers(p, v), Covers(q, v) PROVE FALSE
  BY Domains, <1>2, <1>3 DEF Covers
<1> QED BY Domains, <1>3, ValuesAre

\* A covered cube has only values of the covering one.
LEMMA CoveredValues ==
  ASSUME NEW p \in Patterns, NEW q \in Patterns, Covers(q, p)
  PROVE  ValuesOf(p) \subseteq ValuesOf(q)
BY Domains, ValuesAre DEF Covers

\* A further cube adds its own values to a coverage.
LEMMA CoverageUnion ==
  ASSUME NEW ps, NEW p
  PROVE  Coverage(ps \cup {p}) = Coverage(ps) \cup ValuesOf(p)
BY DEF Coverage

\* The half outside the other cube has none of its values.
LEMMA OutsideMisses ==
  ASSUME NEW p \in Patterns, NEW q \in Patterns, NEW i \in Index, q[i] \in Concrete
  PROVE  ValuesOf([p EXCEPT ![i] = Not(q[i])]) \cap ValuesOf(q) = {}
<1> DEFINE out == [p EXCEPT ![i] = Not(q[i])]
<1>1. out[i] = Not(q[i]) /\ out \in Patterns
  BY ConcreteNot DEF Patterns, Bit, Concrete
<1>2. CubeDisjoint(out, q)
  BY Domains, <1>1, ConcreteNot DEF CubeDisjoint, Opposed
<1> QED BY <1>1, <1>2, OpposedValues

\* A cube that shares no value with the collected ones can be collected.
LEMMA StillDisjoint ==
  ASSUME NEW p, PairwiseDisjoint, ValuesOf(p) \cap Coverage(result) = {},
         result' = result \cup {p}
  PROVE  PairwiseDisjoint'
<1>1. \A q \in result : ValuesOf(q) \cap ValuesOf(p) = {}
  BY DEF Coverage
<1> QED BY <1>1 DEF PairwiseDisjoint

\* One level of the recursion collects the half outside and goes on with the half
\* inside.
LEMMA SplitKeepsInv == CubeInvariant /\ Split => CubeInvariant'
<1> SUFFICES ASSUME CubeInvariant, Split PROVE CubeInvariant'
  OBVIOUS
<1>1. PICK i \in SplitPositions(current, other) : SplitAt(i)
  BY DEF Split
<1> DEFINE in == [current EXCEPT ![i] = other[i]]
           out == [current EXCEPT ![i] = Not(other[i])]
<1>2. i \in Index /\ current[i] = "x" /\ other[i] \in Concrete
  BY Domains, PositionsAre DEF CubeInvariant, SubtractionTypeOK, Patterns, Bit, Concrete
<1>3. current \in Patterns
  BY DEF CubeInvariant, SubtractionTypeOK
<1>4. /\ in \in Patterns /\ out \in Patterns
      /\ ValuesOf(current) = ValuesOf(in) \cup ValuesOf(out)
      /\ ValuesOf(in) \cap ValuesOf(out) = {}
  BY ONLY ZenonT(40), <1>2, <1>3, Halves
<1>5. ValuesOf(out) \cap ValuesOf(other) = {}
  BY <1>2, OutsideMisses DEF CubeInvariant, SubtractionTypeOK
<1>6. /\ current' = in
      /\ result' = result \cup {out}
      /\ ~done
      /\ UNCHANGED <<minuend, other, done>>
  BY <1>1 DEF Split, SplitAt
<1>7. SubtractionTypeOK'
  BY <1>4, <1>6 DEF CubeInvariant, SubtractionTypeOK
<1> HIDE DEF in, out
<1>8. Coverage(result') = Coverage(result) \cup ValuesOf(out)
  BY <1>6, CoverageUnion
<1>9. Accounted'
  <2>1. Remaining = ValuesOf(current) \ ValuesOf(other)
    BY <1>6 DEF Remaining
  <2>2. Remaining' = ValuesOf(in) \ ValuesOf(other)
    BY <1>6 DEF Remaining
  <2> QED BY <1>4, <1>5, <1>6, <1>8, <2>1, <2>2 DEF CubeInvariant, Accounted
<1>10. PairwiseDisjoint'
  <2>1. ValuesOf(out) \subseteq Remaining
    BY <1>4, <1>5, <1>6 DEF Remaining
  <2> QED BY <1>6, <2>1, StillDisjoint DEF CubeInvariant, Accounted
<1> QED BY <1>7, <1>9, <1>10 DEF CubeInvariant

\* Whatever the width, at every call of cube_subtract the collected cubes and what
\* is left of the current one partition the difference of the two cubes.
THEOREM CubeInvariantHolds == SubtractionSpec => []CubeInvariant
<1>1. SubtractionInit => CubeInvariant
  <2> SUFFICES ASSUME SubtractionInit PROVE CubeInvariant
    OBVIOUS
  <2>1. SubtractionTypeOK
    BY DEF SubtractionInit, SubtractionTypeOK
  <2>2. Coverage(result) = {}
    BY DEF SubtractionInit, Coverage
  <2> QED BY <2>1, <2>2 DEF SubtractionInit, CubeInvariant, Accounted, Remaining, PairwiseDisjoint
<1>2. CubeInvariant /\ [SubtractionNext]_subtractionVars => CubeInvariant'
  <2> SUFFICES ASSUME CubeInvariant, [SubtractionNext]_subtractionVars PROVE CubeInvariant'
    OBVIOUS
  <2>1. CASE ReturnWhole
    <3>1. ValuesOf(current) \cap ValuesOf(other) = {}
      BY <2>1, OpposedValues DEF ReturnWhole, CubeInvariant, SubtractionTypeOK
    <3>2. Coverage(result') = Coverage(result) \cup ValuesOf(current)
      BY <2>1, CoverageUnion DEF ReturnWhole
    <3>3. Accounted'
      BY <2>1, <3>1, <3>2 DEF ReturnWhole, CubeInvariant, Accounted, Remaining
    <3>4. PairwiseDisjoint'
      <4>1. ValuesOf(current) = Remaining
        BY <2>1, <3>1 DEF ReturnWhole, Remaining
      <4> QED BY <2>1, <4>1, StillDisjoint DEF ReturnWhole, CubeInvariant, Accounted
    <3> QED BY <2>1, <3>3, <3>4 DEF ReturnWhole, CubeInvariant, SubtractionTypeOK
  <2>2. CASE ReturnNothing
    <3>1. ValuesOf(current) \subseteq ValuesOf(other)
      BY <2>2, CoveredValues DEF ReturnNothing, CubeInvariant, SubtractionTypeOK
    <3>2. Accounted'
      BY <2>2, <3>1 DEF ReturnNothing, CubeInvariant, Accounted, Remaining
    <3> QED BY <2>2, <3>2 DEF ReturnNothing, CubeInvariant, SubtractionTypeOK, PairwiseDisjoint
  <2>3. CASE Split
    BY <2>3, SplitKeepsInv
  <2>4. CASE UNCHANGED subtractionVars
    BY <2>4 DEF subtractionVars, CubeInvariant, SubtractionTypeOK, Accounted, Remaining, PairwiseDisjoint
  <2> QED BY <2>1, <2>2, <2>3, <2>4 DEF SubtractionNext
<1> QED BY <1>1, <1>2, PTL DEF SubtractionSpec

\* Whatever the width, cube_subtract returns the set difference of its cubes.
THEOREM ExactDifferenceHolds == SubtractionSpec => []ExactDifference
<1>1. CubeInvariant => ExactDifference
  BY DEF CubeInvariant, Accounted, Remaining, ExactDifference
<1> QED BY <1>1, CubeInvariantHolds, PTL

(***************************************************************************)
(* FieldUses::merge.                                                       *)
(***************************************************************************)

Freedom(p) == Cardinality(VariableIn(p))

\* A pattern has from none to Width variable bits.
LEMMA FreedomType ==
  ASSUME NEW p \in Patterns
  PROVE  /\ IsFiniteSet(VariableIn(p))
         /\ Freedom(p) \in 0 .. Width
<1>1. IsFiniteSet(Index) /\ Cardinality(Index) = Width
  BY FS_Interval, WidthAssumption DEF Index
<1>2. VariableIn(p) \in SUBSET Index
  BY Domains, PositionsAre
<1>3. IsFiniteSet(VariableIn(p)) /\ Cardinality(VariableIn(p)) <= Width
  BY <1>1, <1>2, FS_Subset
<1>4. Cardinality(VariableIn(p)) \in Nat
  BY <1>3, FS_CardinalityType
<1> QED BY <1>3, <1>4, WidthAssumption DEF Freedom

\* Covering is transitive.
LEMMA CoversTransitive ==
  ASSUME NEW p, NEW q, NEW r, Covers(p, q), Covers(q, r)
  PROVE  Covers(p, r)
BY Domains DEF Covers

\* A cube that covers another one has more variable positions.
LEMMA CoveringIsFreer ==
  ASSUME NEW p \in Patterns, NEW q \in Patterns, Covers(p, q), p # q
  PROVE  Freedom(q) < Freedom(p)
<1>1. VariableIn(q) \in SUBSET VariableIn(p)
  BY Domains, PositionsAre DEF Covers
<1>2. PICK i \in Index : p[i] # q[i]
  BY DEF Patterns
<1>3. i \in VariableIn(p) /\ i \notin VariableIn(q)
  BY Domains, <1>2, PositionsAre DEF Covers
<1>4. Cardinality(VariableIn(q)) <= Cardinality(VariableIn(p))
  BY <1>1, FreedomType, FS_Subset
<1>5. Cardinality(VariableIn(q)) # Cardinality(VariableIn(p))
  BY <1>1, <1>3, FreedomType, FS_Subset
<1>6. Freedom(p) \in 0 .. Width /\ Freedom(q) \in 0 .. Width
  BY FreedomType
<1> QED BY <1>4, <1>5, <1>6, WidthAssumption DEF Freedom

\* Dropping the cubes that lie within others leaves one that covers whatever was
\* covered: of the cubes that cover it, one with the most variable positions stays.
LEMMA KeptCovers ==
  ASSUME NEW ps \in SUBSET Patterns, NEW p \in ps, NEW v, Covers(p, v)
  PROVE  \E q \in RemoveSubsumed(ps) : Covers(q, v)
<1> DEFINE Lack == {Width - Freedom(q) : q \in {r \in ps : Covers(r, v)}}
<1>1. Lack \in SUBSET Nat /\ Lack # {}
  BY FreedomType, WidthAssumption
<1>2. PICK m \in Lack : \A k \in Lack : m <= k
  BY <1>1, LeastNatural
<1>3. PICK q \in ps : Covers(q, v) /\ m = Width - Freedom(q)
  BY <1>2
<1>4. ASSUME NEW r \in ps, r # q, Covers(r, q) PROVE FALSE
  <2>1. Covers(r, v)
    BY <1>3, <1>4, CoversTransitive
  <2>2. Freedom(q) < Freedom(r)
    BY <1>4, CoveringIsFreer
  <2>3. m <= Width - Freedom(r)
    BY <1>2, <2>1
  <2>4. Freedom(q) \in 0 .. Width /\ Freedom(r) \in 0 .. Width
    BY FreedomType
  <2> QED BY <1>3, <2>2, <2>3, <2>4, WidthAssumption
<1> QED BY Domains, <1>3, <1>4 DEF RemoveSubsumed

\* So no value is lost.
LEMMA RemoveSubsumedKeeps ==
  ASSUME NEW ps \in SUBSET Patterns
  PROVE  Coverage(RemoveSubsumed(ps)) = Coverage(ps)
<1>1. Coverage(RemoveSubsumed(ps)) \subseteq Coverage(ps)
  BY Domains DEF Coverage, RemoveSubsumed
<1>2. ASSUME NEW v \in Values, NEW p \in ps, Covers(p, v)
      PROVE  \E q \in RemoveSubsumed(ps) : Covers(q, v)
  BY <1>2, KeptCovers
<1>3. ASSUME NEW v \in Coverage(ps) PROVE v \in Coverage(RemoveSubsumed(ps))
  <2>1. v \in Values /\ \E p \in ps : Covers(p, v)
    BY <1>3, ValuesAre DEF Coverage
  <2>2. PICK q \in RemoveSubsumed(ps) : Covers(q, v)
    BY <1>2, <2>1
  <2>3. q \in Patterns
    BY DEF RemoveSubsumed
  <2>4. v \in ValuesOf(q)
    BY <2>1, <2>2, <2>3, ValuesAre
  <2> QED BY <2>2, <2>4 DEF Coverage
<1> QED BY <1>1, <1>3

\* The merged cube has the values of the two it replaces and no other.
LEMMA MergeWithExact ==
  ASSUME NEW p \in Patterns, NEW q \in Patterns, CanMergeWith(p, q)
  PROVE  /\ MergeWith(p, q) \in Patterns
         /\ ValuesOf(MergeWith(p, q)) = ValuesOf(p) \cup ValuesOf(q)
<1>1. PICK i \in Index : Opposed(p, q, i) /\ \A j \in Index \ {i} : p[j] = q[j]
  BY Domains DEF CanMergeWith
<1> DEFINE m == MergeWith(p, q)
<1>2. m[i] = "x" /\ \A j \in Index \ {i} : m[j] = p[j] /\ m[j] = q[j]
  BY Domains, <1>1 DEF MergeWith, Opposed, Concrete
<1>3. m \in Patterns
  BY Domains DEF MergeWith, Patterns, Bit
<1>4. p[i] # "x" /\ q[i] # "x" /\ \A b \in Concrete : b = p[i] \/ b = q[i]
  BY <1>1 DEF Opposed, Concrete
<1> HIDE DEF m
<1>5. ASSUME NEW v \in Values PROVE Covers(m, v) <=> Covers(p, v) \/ Covers(q, v)
  <2>1. v[i] \in Concrete
    BY DEF Values
  <2>2. Covers(p, v) \/ Covers(q, v) => Covers(m, v)
    BY CoversAre, <1>2, <1>3
  <2>3. Covers(m, v) /\ v[i] = p[i] => Covers(p, v)
    BY CoversAre, <1>2, <1>3
  <2>4. Covers(m, v) /\ v[i] = q[i] => Covers(q, v)
    BY CoversAre, <1>2, <1>3
  <2> QED BY <1>4, <2>1, <2>2, <2>3, <2>4
<1>6. ValuesOf(m) = ValuesOf(p) \cup ValuesOf(q)
  BY <1>3, <1>5, ValuesAre
<1> QED BY <1>3, <1>6 DEF m

\* What two mergeable patterns of the set make is among those merged.
LEMMA MergedHas ==
  ASSUME NEW ps, NEW p \in ps, NEW q \in ps, CanMergeWith(p, q)
  PROVE  MergeWith(p, q) \in Merged(ps)
<1> DEFINE r == <<p, q>>
<1>1. r \in ps \X ps /\ r[1] = p /\ r[2] = q
  OBVIOUS
<1>2. MergeWith(r[1], r[2]) \in Merged(ps)
  BY Domains, <1>1 DEF Merged
<1> QED BY <1>1, <1>2

\* One round of the loop keeps the values.
LEMMA RoundKeeps ==
  ASSUME NEW ps \in SUBSET Patterns
  PROVE  /\ NextRound(ps) \in SUBSET Patterns
         /\ Coverage(NextRound(ps)) = Coverage(ps)
<1> DEFINE new == (ps \ Mergeable(ps)) \cup Merged(ps)
<1>1. Merged(ps) \in SUBSET Patterns
  BY Domains, MergeWithExact DEF Merged
<1>2. new \in SUBSET Patterns
  BY <1>1
<1>3. ASSUME NEW v \in Coverage(ps) PROVE v \in Coverage(new)
  <2>1. PICK p \in ps : v \in ValuesOf(p)
    BY <1>3 DEF Coverage
  <2>2. CASE p \in Mergeable(ps)
    <3>1. PICK q \in ps : CanMergeWith(p, q)
      BY Domains, <2>2 DEF Mergeable
    <3>2. MergeWith(p, q) \in Merged(ps)
      BY <3>1, MergedHas
    <3>3. v \in ValuesOf(MergeWith(p, q))
      BY <2>1, <3>1, MergeWithExact
    <3> QED BY <3>2, <3>3 DEF Coverage
  <2>3. CASE p \notin Mergeable(ps)
    BY <2>1, <2>3 DEF Coverage
  <2> QED BY <2>2, <2>3
<1>4. ASSUME NEW v \in Coverage(new) PROVE v \in Coverage(ps)
  <2>1. PICK m \in new : v \in ValuesOf(m)
    BY <1>4 DEF Coverage
  <2>2. CASE m \in ps
    BY <2>1, <2>2 DEF Coverage
  <2>3. CASE m \in Merged(ps)
    <3>1. PICK p \in ps, q \in ps : CanMergeWith(p, q) /\ m = MergeWith(p, q)
      BY Domains, <2>3 DEF Merged
    <3>2. v \in ValuesOf(p) \cup ValuesOf(q)
      BY <2>1, <3>1, MergeWithExact
    <3> QED BY <3>2 DEF Coverage
  <2> QED BY <2>2, <2>3
<1>5. Coverage(RemoveSubsumed(new)) = Coverage(new)
  BY <1>2, RemoveSubsumedKeeps
<1>6. RemoveSubsumed(new) \subseteq new
  BY Domains DEF RemoveSubsumed
<1>7. NextRound(ps) = RemoveSubsumed(new)
  BY DEF NextRound
<1> QED BY <1>2, <1>3, <1>4, <1>5, <1>6, <1>7

\* What two patterns merge into covers both, and neither covers it.
LEMMA MergedCovers ==
  ASSUME NEW p \in Patterns, NEW q \in Patterns, CanMergeWith(p, q)
  PROVE  Covers(MergeWith(p, q), p) /\ ~Covers(p, MergeWith(p, q))
<1> DEFINE m == MergeWith(p, q)
<1>1. PICK i \in Index : Opposed(p, q, i) /\ \A j \in Index \ {i} : p[j] = q[j]
  BY Domains DEF CanMergeWith
<1>2. m[i] = "x" /\ p[i] # "x" /\ \A j \in Index \ {i} : m[j] = p[j]
  BY Domains, <1>1 DEF MergeWith, Opposed, Concrete
<1>3. m \in Patterns
  BY MergeWithExact
<1> HIDE DEF m
<1>4. Covers(m, p) /\ ~Covers(p, m)
  BY CoversAre, <1>1, <1>2, <1>3
<1> QED BY <1>4 DEF m

\* A round changes a set that still has two cubes to merge: the merged cube
\* covers both.
LEMMA RoundMerges ==
  ASSUME NEW ps \in SUBSET Patterns, NEW p \in ps, NEW q \in ps, CanMergeWith(p, q)
  PROVE  p \notin NextRound(ps)
<1>1. MergeWith(p, q) \in Merged(ps)
  BY MergedHas
<1>2. Covers(MergeWith(p, q), p) /\ ~Covers(p, MergeWith(p, q))
  BY MergedCovers
<1>3. MergeWith(p, q) # p
  BY <1>2
<1> QED BY <1>1, <1>2, <1>3 DEF NextRound, RemoveSubsumed

\* Subtracting leaves patterns of the same width.
LEMMA SubtractType ==
  ASSUME NEW p \in Patterns, NEW v \in Values
  PROVE  CubeSubtract(p, v) \in SUBSET Patterns
<1>1. \A i \in Index : Not(v[i]) \in Bit /\ v[i] \in Bit /\ p[i] \in Bit
  BY DEF Values, Patterns, Concrete, Bit, Not
<1>2. \A i \in Index : Outside(p, v, i) \in Patterns
  BY Domains, <1>1 DEF Outside, Patterns
<1> QED BY Domains, <1>2, PositionsAre DEF CubeSubtract

(***************************************************************************)
(* The closed form of cube_subtract, and the complement.                   *)
(***************************************************************************)

\* The cubes of the closed form are patterns of the same width.
LEMMA OutsideTyped ==
  ASSUME NEW p \in Patterns, NEW q \in Patterns, NEW i \in SplitPositions(p, q)
  PROVE  /\ Outside(p, q, i) \in Patterns /\ i \in Index
         /\ Outside(p, q, i)[i] = Not(q[i]) /\ q[i] \in Concrete
         /\ \A j \in Index \ {i} :
              Outside(p, q, i)[j] = IF j \in SplitPositions(p, q) /\ j < i THEN q[j] ELSE p[j]
<1>1. i \in Index /\ q[i] \in Concrete
  BY Domains, PositionsAre DEF Patterns, Bit, Concrete
<1>2. \A j \in Index : Not(q[i]) \in Bit /\ q[j] \in Bit /\ p[j] \in Bit
  BY <1>1, ConcreteNot DEF Patterns, Bit, Concrete
<1>3. Outside(p, q, i) \in Patterns
  BY Domains, <1>2 DEF Outside, Patterns
<1> QED BY Domains, <1>1, <1>3 DEF Outside

\* They make up the difference of the two cubes, without overlaps.
LEMMA SubtractExact ==
  ASSUME NEW p \in Patterns, NEW q \in Patterns
  PROVE  /\ CubeSubtract(p, q) \in SUBSET Patterns
         /\ Coverage(CubeSubtract(p, q)) = ValuesOf(p) \ ValuesOf(q)
         /\ \A c, d \in CubeSubtract(p, q) : c # d => ValuesOf(c) \cap ValuesOf(d) = {}
<1>1. CASE CubeDisjoint(p, q)
  <2>1. CubeSubtract(p, q) = {p}
    BY Domains, <1>1 DEF CubeSubtract
  <2>2. ValuesOf(p) \cap ValuesOf(q) = {}
    BY <1>1, OpposedValues
  <2> QED BY <2>1, <2>2 DEF Coverage
<1>2. CASE ~CubeDisjoint(p, q)
  <2> DEFINE S == SplitPositions(p, q)
  <2>1. CubeSubtract(p, q) = {Outside(p, q, i) : i \in S}
    BY Domains, <1>2 DEF CubeSubtract
  <2>2. S \subseteq Index /\ \A i \in S : p[i] = "x" /\ q[i] \in Concrete
    BY Domains, OutsideTyped, PositionsAre
  <2>3. \A i \in S : Outside(p, q, i) \in Patterns
    BY OutsideTyped
  <2>4. ASSUME NEW i \in S, NEW v \in Values, Covers(Outside(p, q, i), v)
        PROVE  /\ Covers(p, v) /\ ~Covers(q, v) /\ v[i] # q[i]
               /\ \A j \in S : j < i => v[j] = q[j]
    <3> DEFINE o == Outside(p, q, i)
    <3>1. /\ i \in Index /\ o[i] = Not(q[i]) /\ q[i] \in Concrete
          /\ \A j \in Index \ {i} : o[j] = IF j \in S /\ j < i THEN q[j] ELSE p[j]
      BY OutsideTyped
    <3> HIDE DEF o
    <3>2. Not(q[i]) # q[i] /\ Not(q[i]) # "x" /\ q[i] # "x"
      BY <3>1, ConcreteNot DEF Concrete
    <3>3. \A j \in Index : o[j] = "x" \/ o[j] = v[j]
      BY Domains, <2>4 DEF Covers, o
    <3>4. v[i] # q[i]
      BY <3>1, <3>2, <3>3
    <3>5. ~Covers(q, v)
      BY Domains, <3>1, <3>2, <3>4 DEF Covers
    <3>6. ASSUME NEW j \in Index PROVE p[j] = "x" \/ p[j] = v[j]
      BY <2>2, <3>1, <3>3
    <3>7. ASSUME NEW j \in S, j < i PROVE v[j] = q[j]
      <4>1. j \in Index /\ j # i /\ q[j] # "x"
        BY <2>2, <3>1, <3>7 DEF Concrete, Index
      <4> QED BY <3>1, <3>3, <3>7, <4>1
    <3> QED BY Domains, <3>4, <3>5, <3>6, <3>7 DEF Covers
  <2>5. ASSUME NEW v \in Values, Covers(p, v), ~Covers(q, v)
        PROVE  \E i \in S : Covers(Outside(p, q, i), v)
    <3> DEFINE D == {i \in Index : q[i] # "x" /\ q[i] # v[i]}
    <3>1. D # {} /\ D \in SUBSET Nat
      BY CoversAre, <2>5 DEF Index
    <3>2. D \subseteq S
      <4> SUFFICES ASSUME NEW i \in D, p[i] # "x" PROVE FALSE
        BY Domains, PositionsAre
      <4>1. p[i] = v[i] /\ v[i] \in Concrete /\ q[i] \in Concrete /\ q[i] # v[i]
        BY Domains, <2>5 DEF Covers, Values, Patterns, Bit, Concrete
      <4>2. Opposed(p, q, i)
        BY <4>1 DEF Opposed, Concrete
      <4> QED BY Domains, <1>2, <4>2 DEF CubeDisjoint
    <3>3. PICK i \in D : \A j \in D : i <= j
      BY <3>1, LeastNatural
    <3> DEFINE o == Outside(p, q, i)
    <3>4. /\ i \in S /\ o[i] = Not(q[i]) /\ q[i] \in Concrete
          /\ \A j \in Index \ {i} : o[j] = IF j \in S /\ j < i THEN q[j] ELSE p[j]
      BY <3>2, OutsideTyped
    <3> HIDE DEF o
    <3>5. v[i] = Not(q[i])
      <4>1. v[i] \in Concrete /\ v[i] # q[i]
        BY DEF Values
      <4> QED BY <3>4, <4>1, ConcreteNot
    <3>6. ASSUME NEW j \in Index PROVE o[j] = "x" \/ o[j] = v[j]
      <4>1. CASE j = i
        BY <3>4, <3>5, <4>1
      <4>2. CASE j # i /\ j \in S /\ j < i
        <5>1. j \notin D
          BY <3>3, <4>2 DEF Index
        <5>2. q[j] = v[j]
          BY <2>2, <4>2, <5>1 DEF Concrete
        <5> QED BY <3>4, <4>2, <5>2
      <4>3. CASE j # i /\ ~(j \in S /\ j < i)
        <5>1. o[j] = p[j]
          BY <3>4, <4>3
        <5> QED BY Domains, <2>5, <5>1 DEF Covers
      <4> QED BY <4>1, <4>2, <4>3
    <3>7. o \in Patterns
      BY <2>3, <3>4 DEF o
    <3>8. Covers(o, v)
      BY CoversAre, <3>6, <3>7
    <3> QED BY <3>4, <3>8 DEF o
  <2>6. ASSUME NEW c \in CubeSubtract(p, q), NEW d \in CubeSubtract(p, q), c # d
        PROVE  ValuesOf(c) \cap ValuesOf(d) = {}
    <3>1. PICK i \in S, j \in S : c = Outside(p, q, i) /\ d = Outside(p, q, j)
      BY <2>1
    <3>2. i \in Int /\ j \in Int /\ i # j
      BY <2>2, <2>6, <3>1 DEF Index
    <3> SUFFICES ASSUME NEW v \in Values, Covers(c, v), Covers(d, v) PROVE FALSE
      BY <2>3, <3>1, ValuesAre
    <3>3. CASE i < j
      BY <2>4, <3>1, <3>3
    <3>4. CASE j < i
      BY <2>4, <3>1, <3>4
    <3> QED BY <3>2, <3>3, <3>4
  <2>7. Coverage(CubeSubtract(p, q)) = ValuesOf(p) \ ValuesOf(q)
    <3>1. ASSUME NEW v \in Coverage(CubeSubtract(p, q)) PROVE v \in ValuesOf(p) \ ValuesOf(q)
      <4>1. v \in Values /\ \E i \in S : Covers(Outside(p, q, i), v)
        BY <2>1, <2>3, <3>1, ValuesAre DEF Coverage
      <4> QED BY <2>4, <4>1, ValuesAre
    <3>2. ASSUME NEW v \in ValuesOf(p) \ ValuesOf(q) PROVE v \in Coverage(CubeSubtract(p, q))
      <4>1. v \in Values /\ \E i \in S : Covers(Outside(p, q, i), v)
        BY Domains, <2>5, <3>2, ValuesAre
      <4>2. PICK i \in S : Covers(Outside(p, q, i), v)
        BY <4>1
      <4>3. v \in ValuesOf(Outside(p, q, i))
        BY <2>3, <4>1, <4>2, ValuesAre
      <4> QED BY <2>1, <4>3 DEF Coverage
    <3> QED BY <3>1, <3>2
  <2> QED BY <2>1, <2>3, <2>6, <2>7
<1> QED BY <1>1, <1>2

\* There are finitely many patterns of a width.
LEMMA PatternsFinite == IsFiniteSet(Patterns)
<1>1. IsFiniteSet(Bit)
  <2>1. IsFiniteSet({"0"}) /\ IsFiniteSet({"1"}) /\ IsFiniteSet({"x"})
    BY FS_Singleton
  <2>2. IsFiniteSet({"0"} \cup {"1"})
    BY <2>1, FS_Union
  <2>3. IsFiniteSet(({"0"} \cup {"1"}) \cup {"x"})
    BY <2>1, <2>2, FS_Union
  <2>4. Bit = ({"0"} \cup {"1"}) \cup {"x"}
    BY DEF Bit
  <2> QED BY <2>3, <2>4
<1> QED BY <1>1, WidthAssumption, FinitelyManySequences DEF Patterns, Index

\* The recursion over the patterns that makes the complement.
LEMMA UncoveredRecursion ==
  ASSUME NEW ps \in SUBSET Patterns
  PROVE  LET m == Cardinality(ps)
             order == SetToSeq(ps)
         IN  /\ m \in Nat /\ order \in [1 .. m -> ps]
             /\ \A p \in ps : \E k \in 1 .. m : order[k] = p
             /\ \E after \in [0 .. m -> SUBSET Patterns] :
                  /\ after[0] = {Universal}
                  /\ \A k \in 1 .. m :
                       after[k] = UNION {CubeSubtract(u, order[k]) : u \in after[k - 1]}
                  /\ UncoveredPatterns(ps) = after[m]
<1> DEFINE m == Cardinality(ps)
           order == SetToSeq(ps)
           Less(d, k) == UNION {CubeSubtract(u, order[k]) : u \in d}
           Body(g) == [k \in 0 .. m |-> IF k = 0 THEN {Universal} ELSE Less(g[k - 1], k)]
           after == CHOOSE g : g = Body(g)
           step == [k \in 1 .. m |-> [d \in SUBSET Patterns |-> Less(d, k)]]
<1>1. IsFiniteSet(ps)
  BY PatternsFinite, FS_Subset
<1>2. /\ m \in Nat /\ order \in [1 .. m -> ps]
      /\ \A p \in ps : \E k \in 1 .. m : order[k] = p
  BY <1>1, FS_CardinalityType, SetToSeqComplete
<1>3. \A k \in 1 .. m : order[k] \in Patterns
  BY <1>2
<1>4. ASSUME NEW k \in 1 .. m, NEW d \in SUBSET Patterns PROVE Less(d, k) \in SUBSET Patterns
  BY <1>3, SubtractExact
<1>5. {Universal} \in SUBSET Patterns
  BY DEF Universal, Patterns, Bit
<1>6. \E f \in [0 .. m -> SUBSET Patterns] : f = Body(f)
  <2>1. step \in [1 .. m -> [SUBSET Patterns -> SUBSET Patterns]]
    BY <1>4
  <2> HIDE DEF step, m, Less
  <2>2. PICK f \in [0 .. m -> SUBSET Patterns] : Follows(f, m, {Universal}, step)
    BY <1>2, <1>5, <2>1, RecursionExists
  <2>3. f[0] = {Universal} /\ \A k \in 1 .. m : f[k] = Less(f[k - 1], k)
    <3>1. \A k \in 1 .. m : k - 1 \in 0 .. m
      BY <1>2
    <3> QED BY <2>2, <3>1 DEF Follows, step
  <2>4. f = Body(f)
    BY <1>2, <2>3
  <2> QED BY <2>4
<1>7. after = Body(after)
  <2> HIDE DEF Body
  <2> QED BY <1>6
<1>8. after[0] = {Universal} /\ \A k \in 1 .. m : after[k] = Less(after[k - 1], k)
  <2>1. m \in Nat
    BY <1>2
  <2> HIDE DEF after, m, Less, order
  <2>2. \A g : Body(g)[0] = {Universal} /\ \A k \in 1 .. m : Body(g)[k] = Less(g[k - 1], k)
    BY <2>1
  <2> HIDE DEF Body
  <2> QED BY <1>7, <2>2
<1>9. UncoveredPatterns(ps) = after[m]
  BY DEF UncoveredPatterns
<1>10. after \in [0 .. m -> SUBSET Patterns]
  <2> DEFINE Good == {k \in 0 .. m : after[k] \in SUBSET Patterns}
  <2> HIDE DEF after, m, Less
  <2>1. 0 \in Good
    BY <1>2, <1>5, <1>8
  <2>2. \A k \in 0 .. m - 1 : k \in Good => k + 1 \in Good
    <3> SUFFICES ASSUME NEW k \in 0 .. m - 1, k \in Good PROVE k + 1 \in Good
      OBVIOUS
    <3>1. k + 1 \in 1 .. m /\ k + 1 \in 0 .. m /\ (k + 1) - 1 = k
      BY <1>2
    <3>2. after[k + 1] = Less(after[k], k + 1)
      BY <1>8, <3>1
    <3> QED BY <1>4, <3>1, <3>2
  <2>3. \A k \in 0 .. m : after[k] \in SUBSET Patterns
    <3> HIDE DEF Good
    <3>1. 0 .. m \subseteq Good
      BY <1>2, <2>1, <2>2, Counting
    <3> QED BY <3>1 DEF Good
  <2>4. after = [k \in 0 .. m |-> after[k]]
    <3>1. Body(after) = [k \in 0 .. m |-> Body(after)[k]]
      OBVIOUS
    <3> HIDE DEF Body
    <3> QED BY <1>7, <3>1
  <2> QED BY <2>3, <2>4
<1> HIDE DEF after, m, order
<1>11. \E g \in [0 .. m -> SUBSET Patterns] :
         /\ g[0] = {Universal}
         /\ \A k \in 1 .. m : g[k] = UNION {CubeSubtract(u, order[k]) : u \in g[k - 1]}
         /\ UncoveredPatterns(ps) = g[m]
  BY <1>8, <1>9, <1>10
<1> QED BY <1>2, <1>11 DEF m, order

\* Cubes without overlaps stay so when a cube is taken away from each, and lose just
\* its values.
LEMMA LessOneCube ==
  ASSUME NEW ds \in SUBSET Patterns, NEW q \in Patterns,
         \A c, d \in ds : c # d => ValuesOf(c) \cap ValuesOf(d) = {}
  PROVE  LET less == UNION {CubeSubtract(u, q) : u \in ds}
         IN  /\ Coverage(less) = Coverage(ds) \ ValuesOf(q)
             /\ \A c, d \in less : c # d => ValuesOf(c) \cap ValuesOf(d) = {}
<1> DEFINE less == UNION {CubeSubtract(u, q) : u \in ds}
<1>1. ASSUME NEW u \in ds, NEW c \in CubeSubtract(u, q)
      PROVE  ValuesOf(c) \subseteq ValuesOf(u) \ ValuesOf(q)
  BY <1>1, SubtractExact DEF Coverage
<1>2. \A c \in less : \E u \in ds : c \in CubeSubtract(u, q)
  OBVIOUS
<1>3. Coverage(less) \subseteq Coverage(ds) \ ValuesOf(q)
  <2> HIDE DEF less
  <2> QED BY <1>1, <1>2 DEF Coverage
<1>4. ASSUME NEW v \in Coverage(ds) \ ValuesOf(q) PROVE v \in Coverage(less)
  <2>1. PICK u \in ds : v \in ValuesOf(u)
    BY <1>4 DEF Coverage
  <2>2. v \in Coverage(CubeSubtract(u, q))
    BY <1>4, <2>1, SubtractExact
  <2>3. PICK c \in CubeSubtract(u, q) : v \in ValuesOf(c)
    BY <2>2 DEF Coverage
  <2>4. c \in less
    BY <2>3
  <2> HIDE DEF less
  <2> QED BY <2>3, <2>4 DEF Coverage
<1>5. ASSUME NEW c \in less, NEW d \in less, c # d PROVE ValuesOf(c) \cap ValuesOf(d) = {}
  <2>1. PICK u \in ds, w \in ds : c \in CubeSubtract(u, q) /\ d \in CubeSubtract(w, q)
    BY <1>2
  <2>2. CASE u = w
    BY <1>5, <2>1, <2>2, SubtractExact
  <2>3. CASE u # w
    BY <1>1, <2>1, <2>3
  <2> QED BY <2>2, <2>3
<1> HIDE DEF less
<1>6. Coverage(less) = Coverage(ds) \ ValuesOf(q)
  BY <1>3, <1>4
<1> QED BY <1>5, <1>6 DEF less

\* uncovered_patterns is the complement, without overlaps.
LEMMA UncoveredExact ==
  ASSUME NEW ps \in SUBSET Patterns
  PROVE  /\ UncoveredPatterns(ps) \in SUBSET Patterns
         /\ Coverage(UncoveredPatterns(ps)) = Values \ Coverage(ps)
         /\ \A c, d \in UncoveredPatterns(ps) : c # d => ValuesOf(c) \cap ValuesOf(d) = {}
<1> DEFINE m == Cardinality(ps)
           order == SetToSeq(ps)
<1>1. /\ m \in Nat /\ order \in [1 .. m -> ps]
      /\ \A p \in ps : \E k \in 1 .. m : order[k] = p
  BY UncoveredRecursion
<1>2. PICK after \in [0 .. m -> SUBSET Patterns] :
        /\ after[0] = {Universal}
        /\ \A k \in 1 .. m : after[k] = UNION {CubeSubtract(u, order[k]) : u \in after[k - 1]}
        /\ UncoveredPatterns(ps) = after[m]
  BY UncoveredRecursion
<1> HIDE DEF m, order
<1> DEFINE Taken(k) == {order[j] : j \in 1 .. k}
           Apart(ds) == \A c, d \in ds : c # d => ValuesOf(c) \cap ValuesOf(d) = {}
           Good == {k \in 0 .. m : Coverage(after[k]) = Values \ Coverage(Taken(k)) /\ Apart(after[k])}
<1>3. 0 \in Good
  <2>1. Coverage({Universal}) = Values
    <3>1. Universal \in Patterns
      BY DEF Universal, Patterns, Bit
    <3>2. \A v \in Values : Covers(Universal, v)
      BY <3>1, CoversAre DEF Universal
    <3> QED BY <3>1, <3>2, ValuesAre DEF Coverage
  <2>2. Coverage(Taken(0)) = {}
    BY DEF Coverage
  <2>3. Apart({Universal})
    OBVIOUS
  <2>4. after[0] = {Universal} /\ 0 \in 0 .. m
    BY <1>1, <1>2
  <2> HIDE DEF Taken, Apart
  <2>5. Coverage(after[0]) = Values \ Coverage(Taken(0)) /\ Apart(after[0])
    BY <2>1, <2>2, <2>3, <2>4
  <2> QED BY <2>4, <2>5
<1>4. ASSUME NEW k \in 0 .. m - 1, k \in Good PROVE k + 1 \in Good
  <2>1. k + 1 \in 1 .. m /\ k + 1 \in 0 .. m /\ (k + 1) - 1 = k /\ k \in 0 .. m
    BY <1>1
  <2> DEFINE q == order[k + 1]
             less == UNION {CubeSubtract(u, q) : u \in after[k]}
  <2>2. q \in Patterns /\ after[k] \in SUBSET Patterns /\ Apart(after[k])
    BY <1>1, <1>2, <1>4, <2>1
  <2>3. after[k + 1] = less
    BY <1>2, <2>1
  <2>4. Coverage(less) = Coverage(after[k]) \ ValuesOf(q) /\ Apart(less)
    <3> HIDE DEF q, Taken, Good
    <3> QED BY ZenonT(40), <2>2, LessOneCube
  <2>5. Coverage(Taken(k + 1)) = Coverage(Taken(k)) \cup ValuesOf(q)
    <3>1. 1 .. k + 1 = (1 .. k) \cup {k + 1}
      BY SMTT(40), <1>1
    <3>2. Taken(k + 1) = Taken(k) \cup {q}
      BY <3>1
    <3> HIDE DEF Taken, q
    <3> QED BY <3>2, CoverageUnion
  <2> HIDE DEF Taken, Apart, less, q
  <2> QED BY <1>4, <2>1, <2>3, <2>4, <2>5
<1>5. m \in Good
  <2> HIDE DEF Good
  <2>1. 0 .. m \subseteq Good
    BY <1>1, <1>3, <1>4, Counting
  <2> QED BY <1>1, <2>1
<1>6. Taken(m) = ps
  BY <1>1
<1> HIDE DEF Taken
<1> QED BY <1>1, <1>2, <1>5, <1>6

(***************************************************************************)
(* The life of a field.                                                    *)
(***************************************************************************)

\* No operation on a field makes a pattern of another width.
LEMMA PatternsStay ==
  ASSUME patterns \in SUBSET Patterns, Next
  PROVE  patterns' \in SUBSET Patterns
<1>1. CASE Subsume
  BY Domains, <1>1 DEF Subsume, RemoveSubsumed
<1>2. CASE MergeRound
  BY <1>2, RoundKeeps DEF MergeRound
<1>3. CASE MergeReturns
  BY <1>3 DEF MergeReturns
<1>4. CASE MutateAdd
  <2>1. Values \subseteq Patterns
    BY DEF Values, Patterns, Concrete, Bit
  <2>2. PICK point \in Coverage(UncoveredPatterns(patterns)) : patterns' = patterns \cup {point}
    BY <1>4 DEF MutateAdd, Points
  <2>3. UncoveredPatterns(patterns) \in SUBSET Patterns
    BY UncoveredExact
  <2>4. point \in Values
    BY <2>2, <2>3, ValuesAre DEF Coverage
  <2> QED BY <2>1, <2>2, <2>4
<1>5. CASE MutateRemove
  <2>1. \A p \in Patterns, v \in Values : Without(p, v) \in SUBSET Patterns
    BY SubtractType DEF Without
  <2> QED BY Domains, <1>5, <2>1, ValuesAre DEF MutateRemove
<1> QED BY <1>1, <1>2, <1>3, <1>4, <1>5 DEF Next, Merge

\* Whatever the width, merge works on patterns of that width, no cube lies within
\* another one inside its loop, and what it returns has no two cubes to merge.
THEOREM FieldInvariantHolds == Spec => []FieldInvariant
<1>1. Init => FieldInvariant
  BY GivenUsesAssumption DEF Init, FieldInvariant, TypeOK, NoneSubsumed, NothingLeftToMerge
<1>2. FieldInvariant /\ [Next]_vars => FieldInvariant'
  <2> SUFFICES ASSUME FieldInvariant, [Next]_vars PROVE FieldInvariant'
    OBVIOUS
  <2>1. \A ps : \A p, q \in RemoveSubsumed(ps) : Covers(p, q) => p = q
    BY Domains DEF RemoveSubsumed
  <2>2. CASE Subsume
    <3>1. RemoveSubsumed(patterns) \subseteq patterns
      BY Domains DEF RemoveSubsumed
    <3> QED BY <2>1, <2>2, <3>1 DEF Subsume, FieldInvariant, TypeOK, NoneSubsumed, NothingLeftToMerge
  <2>3. CASE MergeRound
    <3>1. NextRound(patterns) \in SUBSET Patterns
      BY RoundKeeps DEF FieldInvariant, TypeOK
    <3>2. \A p, q \in NextRound(patterns) : Covers(p, q) => p = q
      BY <2>1 DEF NextRound
    <3> QED BY <2>3, <3>1, <3>2 DEF MergeRound, FieldInvariant, TypeOK, NoneSubsumed, NothingLeftToMerge
  <2>4. CASE MergeReturns
    <3>1. \A p, q \in patterns : ~CanMergeWith(p, q)
      BY <2>4, RoundMerges DEF MergeReturns, FieldInvariant, TypeOK
    <3> QED BY <2>4, <3>1 DEF MergeReturns, FieldInvariant, TypeOK, NoneSubsumed, NothingLeftToMerge
  <2>5. CASE MutateAdd
    BY <2>5, PatternsStay DEF MutateAdd, Next, FieldInvariant, TypeOK, NoneSubsumed, NothingLeftToMerge
  <2>6. CASE MutateRemove
    BY <2>6, PatternsStay DEF MutateRemove, Next, FieldInvariant, TypeOK, NoneSubsumed, NothingLeftToMerge
  <2>7. CASE UNCHANGED vars
    BY <2>7 DEF vars, FieldInvariant, TypeOK, NoneSubsumed, NothingLeftToMerge
  <2> QED BY <2>2, <2>3, <2>4, <2>5, <2>6, <2>7 DEF Next, Merge
<1> QED BY <1>1, <1>2, PTL DEF Spec

\* No step of merge gains or loses a value of the field.
THEOREM CoverageHolds == Spec => CoveragePreserved
<1>1. FieldInvariant /\ [Next]_vars => [MergeKeepsCoverage]_vars
  <2> SUFFICES ASSUME FieldInvariant, Merge PROVE Coverage(patterns') = Coverage(patterns)
    BY DEF MergeKeepsCoverage
  <2>1. patterns \in SUBSET Patterns
    BY DEF FieldInvariant, TypeOK
  <2>2. CASE Subsume
    BY <2>1, <2>2, RemoveSubsumedKeeps DEF Subsume
  <2>3. CASE MergeRound
    BY <2>1, <2>3, RoundKeeps DEF MergeRound
  <2>4. CASE MergeReturns
    BY <2>4 DEF MergeReturns
  <2> QED BY <2>2, <2>3, <2>4 DEF Merge
<1> QED BY <1>1, FieldInvariantHolds, PTL DEF Spec, CoveragePreserved

(***************************************************************************)
(* Mutations.                                                              *)
(***************************************************************************)

\* A value covers just itself.
LEMMA PointIsAlone ==
  ASSUME NEW v \in Values
  PROVE  v \in Patterns /\ ValuesOf(v) = {v} /\ VariableIn(v) = {}
<1>1. v \in Patterns /\ \A i \in Index : v[i] # "x"
  BY DEF Values, Patterns, Concrete, Bit
<1>2. ASSUME NEW w \in Values, Covers(v, w) PROVE v = w
  BY Domains, <1>1, <1>2 DEF Covers, Values
<1>3. Covers(v, v)
  BY Domains DEF Covers
<1> QED BY Domains, <1>1, <1>2, <1>3, ValuesAre, PositionsAre

\* A pattern without a variable bit covers only itself, so it is its point.
LEMMA WithoutExact ==
  ASSUME NEW p \in Patterns, NEW v \in ValuesOf(p)
  PROVE  Coverage(Without(p, v)) = ValuesOf(p) \ {v} /\ v \in Values
<1>1. v \in Values /\ Covers(p, v)
  BY Domains, ValuesAre
<1>2. CASE VariableIn(p) = {}
  <2>1. p = v
    BY Domains, <1>1, <1>2, PositionsAre DEF Covers, Values, Patterns
  <2> QED BY <1>1, <1>2, <2>1, PointIsAlone DEF Without, Coverage
<1>3. CASE VariableIn(p) # {}
  BY <1>1, <1>3, PointIsAlone, SubtractExact DEF Without
<1> QED BY <1>2, <1>3

\* A step of a mutation changes the values as it says.
LEMMA MutationIsSmallStep ==
  ASSUME FieldInvariant, [Next]_vars
  PROVE  MutationIsSmall
<1>1. patterns \in SUBSET Patterns
  BY DEF FieldInvariant, TypeOK
<1> DEFINE before == Coverage(patterns)
           after == Coverage(patterns')
<1>2. ASSUME MutateAdd PROVE Cardinality(after \ before) = 1 /\ before \subseteq after
  <2>1. PICK point \in Points(UncoveredPatterns(patterns)) : patterns' = patterns \cup {point}
    BY <1>2 DEF MutateAdd
  <2>2. point \in Values /\ point \notin before
    BY <1>1, <2>1, UncoveredExact DEF Points
  <2>3. after = before \cup {point}
    BY <2>1, <2>2, CoverageUnion, PointIsAlone
  <2> HIDE DEF before, after
  <2>4. after \ before = {point}
    BY <2>2, <2>3
  <2> QED BY <2>3, <2>4, FS_Singleton
<1>3. ASSUME MutateRemove PROVE Cardinality(before \ after) <= 1 /\ after \subseteq before
  <2>0. PICK p \in patterns :
          \E point \in ValuesOf(p) : patterns' = (patterns \ {p}) \cup Without(p, point)
    BY <1>3 DEF MutateRemove
  <2>1. PICK point \in ValuesOf(p) : patterns' = (patterns \ {p}) \cup Without(p, point)
    BY <2>0
  <2>2. Coverage(Without(p, point)) = ValuesOf(p) \ {point}
    BY <1>1, <2>1, WithoutExact
  <2>3. before = Coverage(patterns \ {p}) \cup ValuesOf(p)
    BY <2>1 DEF Coverage
  <2>4. after = Coverage(patterns \ {p}) \cup (ValuesOf(p) \ {point})
    BY <2>1, <2>2 DEF Coverage
  <2> HIDE DEF before, after
  <2>5. after \subseteq before /\ before \ after \subseteq {point}
    BY <2>3, <2>4
  <2>6. before \ after = {} \/ before \ after = {point}
    BY <2>5
  <2>7. Cardinality(before \ after) \in {0, 1}
    BY <2>6, FS_EmptySet, FS_Singleton
  <2> QED BY <2>5, <2>7
<1> QED BY <1>2, <1>3 DEF MutationIsSmall

\* However wide the field and whatever was merged before, a mutation adds exactly one
\* value or takes away at most one.
THEOREM MutationsHold == Spec => MutationsMoveOneValue
<1>1. FieldInvariant /\ [Next]_vars => [MutationIsSmall]_vars
  BY MutationIsSmallStep
<1> QED BY <1>1, FieldInvariantHolds, PTL DEF Spec, MutationsMoveOneValue

(***************************************************************************)
(* The recursion of cube_subtract returns its closed form.                 *)
(***************************************************************************)

\* The positions of the minuend that are split already.
SplitAlready == SplitPositions(minuend, other) \ SplitPositions(current, other)

\* The split positions come one after the other; inside the other cube at those done,
\* the current cube is the minuend everywhere else.
ClosedFormInvariant ==
  /\ minuend \in Patterns /\ other \in Patterns
  /\ ~done =>
       /\ current = [j \in Index |-> IF j \in SplitAlready THEN other[j] ELSE minuend[j]]
       /\ result = {Outside(minuend, other, i) : i \in SplitAlready}
       /\ \A i \in SplitAlready, j \in SplitPositions(current, other) : i < j
       /\ CubeDisjoint(minuend, other) => SplitAlready = {}
  /\ ReturnsClosedForm

\* A level of the recursion leaves what its closed form gives.
LEMMA ClosedFormStep ==
  ASSUME ClosedFormInvariant, [SubtractionNext]_subtractionVars
  PROVE  ClosedFormInvariant'
<1> DEFINE D == SplitAlready
           R == SplitPositions(current, other)
           S == SplitPositions(minuend, other)
<1>1. CASE UNCHANGED subtractionVars
  BY <1>1 DEF subtractionVars, ClosedFormInvariant, SplitAlready, ReturnsClosedForm
<1>2. CASE SubtractionNext
  <2>0. current \in Patterns
    <3>1. \A j \in Index : minuend[j] \in Bit /\ other[j] \in Bit
      BY DEF ClosedFormInvariant, Patterns
    <3>2. current = [j \in Index |-> IF j \in SplitAlready THEN other[j] ELSE minuend[j]]
      BY <1>2 DEF ClosedFormInvariant, SubtractionNext, ReturnWhole, ReturnNothing, Split
    <3>3. \A j \in Index : current[j] \in Bit
      BY <3>1, <3>2
    <3> QED BY <3>2, <3>3 DEF Patterns
  <2>1. /\ ~done /\ minuend' = minuend /\ other' = other
        /\ minuend \in Patterns /\ other \in Patterns
        /\ current = [j \in Index |-> IF j \in D THEN other[j] ELSE minuend[j]]
        /\ result = {Outside(minuend, other, i) : i \in D}
        /\ \A i \in D, j \in R : i < j
        /\ CubeDisjoint(minuend, other) => D = {}
    BY <1>2 DEF SubtractionNext, ReturnWhole, ReturnNothing, Split, ClosedFormInvariant
  <2>2. D \subseteq Index /\ R \subseteq Index /\ \A i \in D : minuend[i] = "x" /\ other[i] # "x"
    BY <2>0, <2>1, PositionsAre DEF SplitAlready
  <2>3. \A j \in Index : current[j] = IF j \in D THEN other[j] ELSE minuend[j]
    BY <2>1
  <2>4. S = D \cup R /\ D \cap R = {}
    BY <2>0, <2>1, <2>2, <2>3, PositionsAre DEF SplitAlready
  <2>5. CubeDisjoint(current, other) <=> CubeDisjoint(minuend, other)
    <3>1. \A j \in Index : Opposed(current, other, j) <=> Opposed(minuend, other, j)
      BY <2>2, <2>3 DEF Opposed, Concrete
    <3> QED BY Domains, <2>0, <2>1, <3>1 DEF CubeDisjoint
  <2> HIDE DEF D
  <2>6. CASE ReturnWhole
    <3>1. CubeDisjoint(minuend, other) /\ D = {}
      BY <2>1, <2>5, <2>6 DEF ReturnWhole
    <3>2. current = minuend
      BY <2>1, <3>1 DEF Patterns
    <3>3. result = {}
      BY <2>1, <3>1
    <3>4. result' = {minuend} /\ done'
      BY <2>6, <3>2, <3>3 DEF ReturnWhole
    <3>5. CubeSubtract(minuend, other) = {minuend}
      BY Domains, <3>1 DEF CubeSubtract
    <3> QED BY <2>1, <3>4, <3>5 DEF ClosedFormInvariant, ReturnsClosedForm
  <2>7. CASE ReturnNothing
    <3>1. R = {}
      BY <2>0, <2>1, <2>7, PositionsAre, CoversAre DEF ReturnNothing
    <3>2. ~CubeDisjoint(minuend, other) /\ S = D
      BY <2>4, <2>5, <2>7, <3>1 DEF ReturnNothing
    <3>3. result' = result /\ done'
      BY <2>7 DEF ReturnNothing
    <3>4. result = CubeSubtract(minuend, other)
      BY Domains, <2>1, <3>2 DEF CubeSubtract
    <3> QED BY <2>1, <3>3, <3>4 DEF ClosedFormInvariant, ReturnsClosedForm
  <2>8. CASE Split
    <3>1. PICK i \in R : (\A j \in R : i <= j) /\ SplitAt(i)
      BY <2>8 DEF Split
    <3>2. /\ current' = [current EXCEPT ![i] = other[i]]
          /\ result' = result \cup {[current EXCEPT ![i] = Not(other[i])]}
          /\ done' = done /\ ~CubeDisjoint(minuend, other)
      BY <2>5, <2>8, <3>1 DEF Split, SplitAt
    <3>3. i \in Index /\ current[i] = "x" /\ other[i] # "x" /\ i \notin D /\ i \in S
      BY <2>0, <2>2, <2>4, <3>1, PositionsAre
    <3>4. \A j \in Index : current'[j] = IF j = i THEN other[i] ELSE current[j]
      BY <2>1, <3>2
    <3>5. SplitPositions(current, other)' = R \ {i}
      <4>1. DOMAIN current' = Index /\ DOMAIN current = Index
        BY <2>1, <3>2
      <4> QED BY <2>1, <2>2, <3>3, <3>4, <4>1 DEF SplitPositions
    <3>6. SplitAlready' = D \cup {i}
      BY <2>1, <2>4, <3>1, <3>5 DEF SplitAlready
    <3>7. current' = [j \in Index |-> IF j \in D \cup {i} THEN other[j] ELSE minuend[j]]
      <4>1. \A j \in Index : current'[j] = IF j \in D \cup {i} THEN other[j] ELSE minuend[j]
        BY <2>3, <3>4
      <4>2. DOMAIN current' = Index /\ current' = [j \in DOMAIN current' |-> current'[j]]
        BY <2>1, <3>2
      <4> QED BY <4>1, <4>2
    <3>8. \A j \in Index : j \in S /\ j < i <=> j \in D
      <4>1. \A j \in D : j < i
        BY <2>1, <3>1
      <4>2. \A j \in R : ~(j < i)
        BY <2>2, <3>1 DEF Index
      <4> QED BY <2>4, <4>1, <4>2
    <3>9. [current EXCEPT ![i] = Not(other[i])] = Outside(minuend, other, i)
      BY Domains, <2>1, <3>3, <3>8 DEF Outside
    <3>10. result' = {Outside(minuend, other, k) : k \in D \cup {i}}
      BY <2>1, <3>2, <3>9
    <3>11. \A k \in D \cup {i}, j \in R \ {i} : k < j
      BY <2>1, <2>2, <3>1, <3>3 DEF Index
    <3> QED BY SMTT(40), <2>1, <3>2, <3>5, <3>6, <3>7, <3>10, <3>11 DEF ClosedFormInvariant, ReturnsClosedForm
  <2> QED BY <1>2, <2>6, <2>7, <2>8 DEF SubtractionNext
<1> QED BY <1>1, <1>2

\* At the first call nothing is collected yet.
LEMMA ClosedFormInit == SubtractionInit => ClosedFormInvariant
<1> SUFFICES ASSUME SubtractionInit PROVE ClosedFormInvariant
  OBVIOUS
<1>1. SplitAlready = {}
  BY DEF SubtractionInit, SplitAlready
<1>2. minuend = [j \in Index |-> minuend[j]]
  BY DEF SubtractionInit, Patterns
<1> QED BY <1>1, <1>2 DEF SubtractionInit, ClosedFormInvariant, ReturnsClosedForm

\* Taking the universal cube away from itself leaves nothing: the state of cube_subtract
\* in a behaviour that is about a field.
LEMMA ClosedFormIdle ==
  ASSUME FieldInit
  PROVE  ClosedFormInvariant
<1>1. Universal \in Patterns /\ SplitPositions(Universal, Universal) = {}
  BY Domains, PositionsAre DEF Universal, Patterns, Bit
<1>2. ~CubeDisjoint(Universal, Universal)
  BY Domains DEF CubeDisjoint, Opposed, Universal, Concrete
<1>3. CubeSubtract(Universal, Universal) = {}
  BY Domains, <1>1, <1>2 DEF CubeSubtract
<1> QED BY <1>1, <1>3 DEF FieldInit, ClosedFormInvariant, ReturnsClosedForm

\* The recursion of cube_subtract returns the closed form that the other modules use,
\* and the patterns that no use of a field covers are its exact complement, without
\* overlaps: for every width and in every state of a field.
THEOREM CubesAreExactHolds == MCSpec => []CubesAreExact
<1> DEFINE Typed == patterns \in SUBSET Patterns /\ ClosedFormInvariant
<1>1. MCInit => Typed
  <2> SUFFICES ASSUME MCInit PROVE Typed
    OBVIOUS
  <2>1. patterns \in SUBSET Patterns
    BY GivenUsesAssumption DEF MCInit, FieldInit, CubeInit, Init
  <2>2. CASE FieldInit
    BY <2>1, <2>2, ClosedFormIdle
  <2>3. CASE CubeInit
    BY <2>1, <2>3, ClosedFormInit DEF CubeInit
  <2> QED BY <2>2, <2>3 DEF MCInit
<1>2. Typed /\ [MCNext]_allVars => Typed'
  <2> SUFFICES ASSUME Typed, [MCNext]_allVars PROVE Typed'
    OBVIOUS
  <2>1. CASE Next /\ UNCHANGED subtractionVars
    <3>1. patterns' \in SUBSET Patterns
      BY <2>1, PatternsStay
    <3> QED BY <2>1, <3>1, ClosedFormStep
  <2>2. CASE SubtractionNext /\ UNCHANGED vars
    BY <2>2, ClosedFormStep DEF vars
  <2>3. CASE UNCHANGED allVars
    BY <2>3, ClosedFormStep DEF vars, allVars
  <2> QED BY <2>1, <2>2, <2>3 DEF MCNext
<1>3. Typed => CubesAreExact
  BY UncoveredExact DEF ClosedFormInvariant, CubesAreExact, UncoveredIsComplement
<1> QED BY <1>1, <1>2, <1>3, PTL DEF MCSpec
(***************************************************************************)
(* The two loops end: what lets a call of merge go round, or of            *)
(* cube_subtract call itself, runs out.                                    *)
(***************************************************************************)

\* The cubes that lie within a cube of the field.
Within(ps) == {c \in Patterns : \E p \in ps : Covers(p, c)}

\* A round of merge loses no cube of the field.
LEMMA RoundWidens ==
  ASSUME NEW ps \in SUBSET Patterns
  PROVE  Within(ps) \subseteq Within(NextRound(ps))
<1> DEFINE new == (ps \ Mergeable(ps)) \cup Merged(ps)
<1>1. new \in SUBSET Patterns
  BY Domains, MergeWithExact DEF Merged
<1>2. ASSUME NEW c \in Patterns, NEW p \in ps, Covers(p, c)
      PROVE  \E n \in new : Covers(n, c)
  <2>1. CASE p \in Mergeable(ps)
    <3>1. PICK q \in ps : CanMergeWith(p, q)
      BY <2>1 DEF Mergeable
    <3>2. MergeWith(p, q) \in Merged(ps)
      BY <3>1, MergedHas
    <3>3. Covers(MergeWith(p, q), p)
      BY <3>1, MergedCovers
    <3>4. Covers(MergeWith(p, q), c)
      BY <1>2, <3>3, CoversTransitive
    <3> QED BY <3>2, <3>4
  <2>2. CASE p \notin Mergeable(ps)
    BY <1>2, <2>2
  <2> QED BY <2>1, <2>2
<1> HIDE DEF new
<1>3. ASSUME NEW n \in new, NEW c \in Patterns, Covers(n, c)
      PROVE  \E q \in RemoveSubsumed(new) : Covers(q, c)
  BY <1>1, <1>3, KeptCovers
<1>4. NextRound(ps) = RemoveSubsumed(new)
  BY DEF NextRound, new
<1> QED BY <1>2, <1>3, <1>4 DEF Within

\* A round that changes a field without nested cubes gains one: what two of them
\* merge into lay within none.
LEMMA RoundGains ==
  ASSUME NEW ps \in SUBSET Patterns, \A p, q \in ps : Covers(p, q) => p = q, NextRound(ps) # ps
  PROVE  \E c \in Within(NextRound(ps)) : c \notin Within(ps)
<1>1. \E p, q \in ps : CanMergeWith(p, q)
  <2> SUFFICES ASSUME \A p, q \in ps : ~CanMergeWith(p, q) PROVE FALSE
    OBVIOUS
  <2>1. Mergeable(ps) = {} /\ Merged(ps) = {}
    BY DEF Mergeable, Merged
  <2>2. NextRound(ps) = RemoveSubsumed(ps)
    BY <2>1 DEF NextRound
  <2>3. RemoveSubsumed(ps) = ps
    BY DEF RemoveSubsumed
  <2> QED BY <2>2, <2>3
<1>2. PICK p \in ps, q \in ps : CanMergeWith(p, q)
  BY <1>1
<1> DEFINE m == MergeWith(p, q)
           new == (ps \ Mergeable(ps)) \cup Merged(ps)
<1>3. m \in Patterns /\ Covers(m, p) /\ ~Covers(p, m) /\ m \in new
  BY <1>2, MergeWithExact, MergedCovers, MergedHas
<1> HIDE DEF m
<1>4. m \notin Within(ps)
  <2> SUFFICES ASSUME NEW r \in ps, Covers(r, m) PROVE FALSE
    BY DEF Within
  <2>1. Covers(r, p)
    BY <1>3, CoversTransitive
  <2> QED BY <1>3, <2>1
<1>5. m \in Within(NextRound(ps))
  <2>1. new \in SUBSET Patterns
    BY Domains, MergeWithExact DEF Merged
  <2>2. Covers(m, m)
    BY DEF Covers
  <2> HIDE DEF new
  <2>3. \E n \in RemoveSubsumed(new) : Covers(n, m)
    BY <1>3, <2>1, <2>2, KeptCovers
  <2>4. NextRound(ps) = RemoveSubsumed(new)
    BY DEF NextRound, new
  <2> QED BY <1>3, <2>3, <2>4 DEF Within
<1> QED BY <1>4, <1>5

RoundGrows ==
  MergeRound => /\ Cardinality(Within(patterns)) < Cardinality(Within(patterns'))
                /\ Cardinality(Within(patterns')) <= Cardinality(Patterns)

\* The loop of merge ends: every round that goes on makes more cubes lie within the
\* field, and there are only those of its width.  (That the number of patterns
\* falls would be no argument: n patterns can merge into more than n.)
THEOREM MergeRoundsAreBounded == Spec => [][RoundGrows]_vars
<1>1. FieldInvariant /\ [Next]_vars => [RoundGrows]_vars
  <2> SUFFICES ASSUME FieldInvariant, MergeRound
               PROVE  /\ Cardinality(Within(patterns)) < Cardinality(Within(patterns'))
                      /\ Cardinality(Within(patterns')) <= Cardinality(Patterns)
    BY DEF RoundGrows
  <2>1. patterns \in SUBSET Patterns /\ \A p, q \in patterns : Covers(p, q) => p = q
    BY DEF FieldInvariant, TypeOK, NoneSubsumed, MergeRound
  <2>2. NextRound(patterns) # patterns /\ patterns' = NextRound(patterns)
    BY DEF MergeRound
  <2>3. Within(patterns) \subseteq Within(patterns')
    BY <2>1, <2>2, RoundWidens
  <2>4. Within(patterns) # Within(patterns')
    BY <2>1, <2>2, RoundGains
  <2>5. Within(patterns') \subseteq Patterns
    BY DEF Within
  <2>6. IsFiniteSet(Within(patterns')) /\ Cardinality(Within(patterns')) <= Cardinality(Patterns)
    BY <2>5, PatternsFinite, FS_Subset
  <2>7. /\ Cardinality(Within(patterns)) <= Cardinality(Within(patterns'))
        /\ Cardinality(Within(patterns)) # Cardinality(Within(patterns'))
        /\ IsFiniteSet(Within(patterns))
    BY <2>3, <2>4, <2>6, FS_Subset
  <2>8. Cardinality(Within(patterns)) \in Nat /\ Cardinality(Within(patterns')) \in Nat
    BY <2>6, <2>7, FS_CardinalityType
  <2> QED BY <2>6, <2>7, <2>8
<1> QED BY <1>1, FieldInvariantHolds, PTL DEF Spec

\* A call of cube_subtract that neither of the two early returns ends finds the
\* position to split at: the panic after the loop is never reached.
SplitsSomewhere ==
  done \/ CubeDisjoint(current, other) \/ Covers(other, current)
       \/ \E i \in SplitPositions(current, other) : \A j \in SplitPositions(current, other) : i <= j

\* The recursive call works on a cube with fewer variable bits.
CallShrinks == Split => Freedom(current') < Freedom(current)

\* So cube_subtract returns, after at most as many recursive calls as the cube has bits.
THEOREM SubtractionEnds == SubtractionSpec => []SplitsSomewhere /\ [][CallShrinks]_subtractionVars
<1>1. SubtractionTypeOK => SplitsSomewhere
  <2> SUFFICES ASSUME SubtractionTypeOK, ~CubeDisjoint(current, other), ~Covers(other, current)
               PROVE  \E i \in SplitPositions(current, other) : \A j \in SplitPositions(current, other) : i <= j
    BY DEF SplitsSomewhere
  <2>1. current \in Patterns /\ other \in Patterns
    BY DEF SubtractionTypeOK
  <2>2. PICK k \in Index : other[k] # "x" /\ other[k] # current[k]
    BY <2>1, CoversAre
  <2>3. ~Opposed(current, other, k)
    BY <2>1, Domains DEF CubeDisjoint
  <2>4. current[k] \in Bit /\ other[k] \in Bit
    BY <2>1 DEF Patterns
  <2>5. current[k] = "x"
    BY <2>2, <2>3, <2>4 DEF Opposed, Bit, Concrete
  <2>6. k \in SplitPositions(current, other) /\ SplitPositions(current, other) \subseteq Nat
    BY <2>1, <2>2, <2>5, PositionsAre, WidthAssumption DEF Index
  <2> QED BY <2>6, LeastNatural
<1>2. SubtractionTypeOK /\ [SubtractionNext]_subtractionVars => [CallShrinks]_subtractionVars
  <2> SUFFICES ASSUME SubtractionTypeOK, Split PROVE Freedom(current') < Freedom(current)
    BY DEF CallShrinks
  <2>1. current \in Patterns /\ other \in Patterns
    BY DEF SubtractionTypeOK
  <2>2. PICK i \in SplitPositions(current, other) : current' = [current EXCEPT ![i] = other[i]]
    BY DEF Split, SplitAt
  <2>3. i \in Index /\ current[i] = "x" /\ other[i] # "x" /\ other[i] \in Bit
    BY <2>1, <2>2, PositionsAre DEF Patterns
  <2>4. current' \in Patterns
    BY <2>1, <2>2, <2>3 DEF Patterns
  <2>5. Covers(current, current') /\ current # current'
    BY <2>1, <2>2, <2>3, <2>4, CoversAre DEF Patterns
  <2> QED BY <2>1, <2>4, <2>5, CoveringIsFreer
<1>3. CubeInvariant => SubtractionTypeOK
  BY DEF CubeInvariant
<1> QED BY <1>1, <1>2, <1>3, CubeInvariantHolds, PTL DEF SubtractionSpec
==============================================================================
