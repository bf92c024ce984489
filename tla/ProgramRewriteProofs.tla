------------------------- MODULE ProgramRewriteProofs -------------------------
(***************************************************************************)
(* Proofs about the analysis of a program and about its rewriting.         *)
(*                                                                         *)
(* The first part is about the blocks of a program and its live registers, *)
(* for every program and both ways of cutting it.  The second is about     *)
(* runs: a file shows, from the same registers, what another does if its   *)
(* lines are replaced by code, with loops and branches of its own, that    *)
(* leaves the same in the registers needed behind, or if its blocks are    *)
(* rewritten.  The third is the invariant of rewrite_program, which says   *)
(* that the file is such a file between any two steps, and that labels     *)
(* stay unique.                                                            *)
(***************************************************************************)
EXTENDS ProgramRewrite, Recursion

LoopProofs == INSTANCE LivelinessProofs WITH Graphs <- {}

(***************************************************************************)
(* The boundaries in ascending order.                                      *)
(***************************************************************************)

\* Sorting by the number of smaller members gives all of them, in ascending order.
LEMMA BoundariesAreSorted ==
  ASSUME NEW b, IsFiniteSet(b), b \subseteq Int
  PROVE  /\ Cardinality(b) \in Nat
         /\ SortedBoundaries(b) \in [1 .. Cardinality(b) -> b]
         /\ Len(SortedBoundaries(b)) = Cardinality(b)
         /\ \A i \in b : \E k \in 1 .. Cardinality(b) : SortedBoundaries(b)[k] = i
         /\ \A k, l \in 1 .. Cardinality(b) :
              k < l => SortedBoundaries(b)[k] < SortedBoundaries(b)[l]
         /\ \A k \in 1 .. Cardinality(b) :
              Cardinality({j \in b : j < SortedBoundaries(b)[k]}) = k - 1
<1> DEFINE n == Cardinality(b)
           Below(i) == {j \in b : j < i}
           rank == [i \in b |-> Cardinality(Below(i)) + 1]
<1>1. n \in Nat
  BY FS_CardinalityType
<1>2. \A i \in b : IsFiniteSet(Below(i)) /\ Cardinality(Below(i)) \in Nat
  BY FS_Subset, FS_CardinalityType
<1>3. ASSUME NEW i \in b, NEW j \in b, i < j
      PROVE  Cardinality(Below(i)) < Cardinality(Below(j))
  <2>1. i \in Int /\ j \in Int /\ \A k \in b : k \in Int
    OBVIOUS
  <2>2. \A k \in b : k < i => k < j
    BY <1>3, <2>1
  <2>5. Below(i) \subseteq Below(j)
    BY <2>2
  <2>3. i \in Below(j) /\ i \notin Below(i)
    BY <1>3, <2>1
  <2>4. Below(i) # Below(j)
    BY <2>3
  <2> QED BY <1>2, <2>5, <2>4, FS_Subset
<1>4. \A i \in b : Cardinality(Below(i)) < n
  <2> TAKE i \in b
  <2>1. Below(i) \subseteq b /\ Below(i) # b
    OBVIOUS
  <2> QED BY <1>1, <1>2, <2>1, FS_Subset
<1>5. rank \in [b -> 1 .. n]
  BY <1>1, <1>2, <1>4
<1>6. \A i, j \in b : i < j => rank[i] < rank[j]
  BY <1>2, <1>3
<1>7. \A i, j \in b : rank[i] = rank[j] => i = j
  <2> TAKE i, j \in b
  <2>1. i \in Int /\ j \in Int /\ rank[i] \in Int /\ rank[j] \in Int
    BY <1>5
  <2> HIDE DEF rank
  <2> QED BY <1>6, <2>1
<1>8. \A k \in 1 .. n : \E i \in b : rank[i] = k
  <2> HIDE DEF rank
  <2>1. rank \in Injection(b, 1 .. n)
    BY <1>5, <1>7 DEF Injection, IsInjective
  <2>2. Cardinality(1 .. n) = n /\ IsFiniteSet(1 .. n)
    BY <1>1, FS_Interval
  <2>3. rank \in Surjection(b, 1 .. n)
    BY <2>1, <2>2, FS_Injection
  <2> QED BY <2>3 DEF Surjection
<1>9. \A k \in 1 .. n : SortedBoundaries(b)[k] \in b /\ rank[SortedBoundaries(b)[k]] = k
  <2> TAKE k \in 1 .. n
  <2>1. \E i \in b : Cardinality(Below(i)) = k - 1
    BY SMTT(40), <1>2, <1>8
  <2>2. SortedBoundaries(b)[k] = CHOOSE i \in b : Cardinality(Below(i)) = k - 1
    BY DEF SortedBoundaries
  <2> DEFINE c == SortedBoundaries(b)[k]
  <2>3. c \in b /\ Cardinality(Below(c)) = k - 1
    BY <2>1, <2>2
  <2> QED BY <1>2, <2>3
<1>10. SortedBoundaries(b) \in [1 .. n -> b]
  BY <1>9 DEF SortedBoundaries
<1>11. Len(SortedBoundaries(b)) = n
  BY <1>1, <1>10
<1>12. \A i \in b : \E k \in 1 .. n : SortedBoundaries(b)[k] = i
  <2> TAKE i \in b
  <2> HIDE DEF rank
  <2>1. rank[i] \in 1 .. n
    BY <1>5
  <2>2. SortedBoundaries(b)[rank[i]] = i
    BY <1>7, <1>9, <2>1
  <2> QED BY <2>1, <2>2
<1>13. \A k, l \in 1 .. n : k < l => SortedBoundaries(b)[k] < SortedBoundaries(b)[l]
  <2> TAKE k, l \in 1 .. n
  <2> HAVE k < l
  <2> HIDE DEF rank
  <2> DEFINE x == SortedBoundaries(b)[k]
             y == SortedBoundaries(b)[l]
  <2>1. x \in b /\ y \in b /\ rank[x] = k /\ rank[y] = l
    BY <1>9
  <2>2. x \in Int /\ y \in Int
    BY <2>1
  <2> HIDE DEF x, y
  <2>3. ~(y < x) /\ x # y
    BY <1>1, <1>6, <2>1
  <2> QED BY <2>2, <2>3 DEF x, y
<1>14. \A k \in 1 .. n : Cardinality(Below(SortedBoundaries(b)[k])) = k - 1
  <2> TAKE k \in 1 .. n
  <2> DEFINE i == SortedBoundaries(b)[k]
  <2>1. i \in b /\ Cardinality(Below(i)) + 1 = k /\ Cardinality(Below(i)) \in Nat
    BY <1>2, <1>9
  <2> HIDE DEF i
  <2> QED BY <2>1 DEF i
<1> QED BY <1>1, <1>10, <1>11, <1>12, <1>13, <1>14

(***************************************************************************)
(* What the boundaries of both constructors have in common.                *)
(***************************************************************************)

IsCut(p, boundaries) ==
  /\ boundaries \subseteq 1 .. Len(p) + 1
  /\ {1, Len(p) + 1} \subseteq boundaries
  /\ \A i \in Positions(p) :
       /\ p[i].branch # "none" => i + 1 \in boundaries
       /\ p[i].branch = "relative" => TargetIndex(p, i) \in boundaries \cap Positions(p)
       /\ p[i].static => {i, i + 1} \subseteq boundaries

\* A branch that resolves goes to a position of the program.
LEMMA TargetsAreInside ==
  ASSUME NEW p, IsProgram(p), ~AnalysisPanics(p),
         NEW i \in Positions(p), p[i].branch = "relative"
  PROVE  TargetIndex(p, i) \in Positions(p)
<1>1. AtTarget(p, i) \subseteq 1 .. Len(p) /\ AtTarget(p, i) # {}
  BY DEF AtTarget, Positions, AnalysisPanics, Resolves
<1>2. \E j \in AtTarget(p, i) : \A k \in AtTarget(p, i) : j <= k
  <2>1. AtTarget(p, i) \in SUBSET Nat
    BY <1>1
  <2> QED BY <1>1, <2>1, LeastNatural
<1>3. TargetIndex(p, i) \in AtTarget(p, i)
  BY <1>2 DEF TargetIndex
<1> QED BY <1>1, <1>3 DEF Positions

\* Both ways of cutting a program whose branches resolve.
LEMMA ChosenBoundariesCut ==
  ASSUME NEW p, IsProgram(p), ~AnalysisPanics(p), NEW s \in BOOLEAN
  PROVE  IsCut(p, ChosenBoundaries(p, s))
<1>1. Len(p) \in Nat
  BY DEF IsProgram
<1>2. \A i \in Positions(p) : i \in Int /\ 1 <= i /\ i <= Len(p) /\ i + 1 \in 1 .. Len(p) + 1
  BY <1>1 DEF Positions
<1>3. \A i \in Positions(p) :
        p[i].branch = "relative" =>
          TargetIndex(p, i) \in Positions(p) /\ TargetIndex(p, i) \in 1 .. Len(p) + 1
  BY <1>1, TargetsAreInside DEF Positions
<1>4. IsCut(p, SplitBoundaries(p))
  BY <1>1, <1>2, <1>3 DEF IsCut, SplitBoundaries, Positions
<1>5. IsCut(p, Boundaries(p))
  <2>1. StaticBoundaries(p) \subseteq 1 .. Len(p) + 1
    BY <1>1, <1>2 DEF StaticBoundaries, Positions
  <2>2. BranchBoundaries(p) \subseteq 1 .. Len(p) + 1
    BY <1>2 DEF BranchBoundaries
  <2>3. TargetBoundaries(p) \subseteq 1 .. Len(p) + 1
    BY <1>3 DEF TargetBoundaries
  <2>4. \A i \in Positions(p) : p[i].static => {i, i + 1} \subseteq StaticBoundaries(p)
    BY DEF StaticBoundaries
  <2>5. \A i \in Positions(p) : p[i].branch # "none" => i + 1 \in BranchBoundaries(p)
    BY DEF BranchBoundaries
  <2>6. \A i \in Positions(p) : p[i].branch = "relative" => TargetIndex(p, i) \in TargetBoundaries(p)
    BY DEF TargetBoundaries
  <2>7. {1, Len(p) + 1} \subseteq 1 .. Len(p) + 1
    BY <1>1
  <2> QED BY <1>3, <2>1, <2>2, <2>3, <2>4, <2>5, <2>6, <2>7 DEF IsCut, Boundaries
<1> QED BY <1>4, <1>5 DEF ChosenBoundaries

(***************************************************************************)
(* The blocks between the boundaries.                                      *)
(***************************************************************************)

\* What the blocks of graph g say of program p, cut at the boundaries.
Tiles(p, boundaries, g) ==
  /\ Len(g) \in Nat /\ DOMAIN g = 1 .. Len(g)
  /\ \A b \in DOMAIN g :
       /\ g[b].start \in Positions(p) /\ g[b].finish \in 2 .. Len(p) + 1
       /\ g[b].start < g[b].finish
       /\ {g[b].start, g[b].finish} \subseteq boundaries
       /\ \A i \in boundaries : i <= g[b].start \/ g[b].finish <= i
  /\ \A i \in boundaries \cap Positions(p) : \E b \in DOMAIN g : g[b].start = i
  /\ \A i \in Positions(p) : \E b \in DOMAIN g : g[b].start <= i /\ i < g[b].finish
  /\ \A b, c \in DOMAIN g : b < c => g[b].finish <= g[c].start

\* The sets of its blocks.
Describes(p, g) ==
  \A b \in DOMAIN g :
    LET s == g[b].start
        e == g[b].finish
    IN  /\ g[b].read = UpwardExposed(p, s, e)
        /\ g[b].consumed = ConsumedIn(p, s, e)
        /\ g[b].exit = ExitRegisters(p, s, e)
        /\ g[b].next \subseteq DOMAIN g
        /\ {g[c].start : c \in g[b].next} = SuccessorPositions(p, s, e)

\* The sorted boundaries of a cut run from the first position to past the last.
LEMMA CutRunsThrough ==
  ASSUME NEW p, IsProgram(p), NEW boundaries, IsCut(p, boundaries)
  PROVE  LET cut == SortedBoundaries(boundaries)
             n == Len(cut)
         IN  /\ n \in Nat \ {0} /\ cut \in [1 .. n -> boundaries]
             /\ cut[1] = 1 /\ cut[n] = Len(p) + 1
             /\ \A i \in boundaries : \E k \in 1 .. n : cut[k] = i
             /\ \A k, l \in 1 .. n : k < l => cut[k] < cut[l]
<1> DEFINE cut == SortedBoundaries(boundaries)
           n == Len(cut)
<1>1. Len(p) \in Nat /\ boundaries \subseteq 1 .. Len(p) + 1
  BY DEF IsProgram, IsCut
<1>2. IsFiniteSet(boundaries)
  <2>1. IsFiniteSet(1 .. Len(p) + 1)
    BY <1>1, FS_Interval
  <2> QED BY <1>1, <2>1, FS_Subset
<1>3. boundaries \subseteq Int
  BY <1>1
<1>4. /\ n \in Nat /\ cut \in [1 .. n -> boundaries]
      /\ \A i \in boundaries : \E k \in 1 .. n : cut[k] = i
      /\ \A k, l \in 1 .. n : k < l => cut[k] < cut[l]
  <2>1. n = Cardinality(boundaries)
    BY <1>2, <1>3, BoundariesAreSorted
  <2> HIDE DEF n
  <2> QED BY <1>2, <1>3, <2>1, BoundariesAreSorted
<1> HIDE DEF cut, n
<1>5. \A k \in 1 .. n : cut[k] \in Int /\ 1 <= cut[k] /\ cut[k] <= Len(p) + 1
  <2>1. \A k \in 1 .. n : cut[k] \in 1 .. Len(p) + 1
    BY <1>1, <1>4
  <2> QED BY <1>1, <2>1
<1>6. PICK k \in 1 .. n : cut[k] = 1
  BY <1>4 DEF IsCut
<1>7. PICK l \in 1 .. n : cut[l] = Len(p) + 1
  BY <1>4 DEF IsCut
<1>8. n # 0 /\ 1 \in 1 .. n /\ n \in 1 .. n
  BY <1>4, <1>6
<1>9. k = 1
  <2>1. 1 < k => cut[1] < cut[k]
    BY <1>4, <1>8
  <2> QED BY <1>5, <1>6, <1>8, <2>1
<1>10. l = n
  <2>1. l < n => cut[l] < cut[n]
    BY <1>4, <1>8
  <2> QED BY <1>4, <1>1, <1>5, <1>7, <1>8, <2>1
<1> QED BY <1>4, <1>6, <1>7, <1>8, <1>9, <1>10 DEF cut, n

\* The blocks tile the program, and nothing but a block's ends is a boundary.
LEMMA BlocksTile ==
  ASSUME NEW p, IsProgram(p), NEW boundaries, IsCut(p, boundaries)
  PROVE  Tiles(p, boundaries, BlocksBetween(p, boundaries))
<1> DEFINE cut == SortedBoundaries(boundaries)
           n == Len(cut)
           g == BlocksBetween(p, boundaries)
<1>1. /\ n \in Nat \ {0} /\ cut \in [1 .. n -> boundaries]
      /\ cut[1] = 1 /\ cut[n] = Len(p) + 1
      /\ \A i \in boundaries : \E k \in 1 .. n : cut[k] = i
      /\ \A k, l \in 1 .. n : k < l => cut[k] < cut[l]
  BY SMTT(40), CutRunsThrough
<1>2. DOMAIN g = 1 .. n - 1 /\ \A b \in 1 .. n - 1 : g[b].start = cut[b] /\ g[b].finish = cut[b + 1]
  BY DEF BlocksBetween
<1>3. Len(p) \in Nat /\ boundaries \subseteq 1 .. Len(p) + 1
  BY DEF IsProgram, IsCut
<1>4. Len(g) = n - 1 /\ n - 1 \in Nat
  <2>1. n - 1 \in Nat
    BY <1>1
  <2> HIDE DEF g, n
  <2> QED BY <1>2, <2>1
<1> HIDE DEF cut, n, g
<1>5. \A k \in 1 .. n : cut[k] \in 1 .. Len(p) + 1 /\ cut[k] \in Int
  <2>1. \A i \in boundaries : i \in 1 .. Len(p) + 1 /\ i \in Int
    BY <1>3
  <2>2. \A k \in 1 .. n : cut[k] \in boundaries
    BY <1>1
  <2> QED BY <2>1, <2>2
<1>6. \A k, l \in 1 .. n : k <= l => cut[k] <= cut[l]
  <2> TAKE k, l \in 1 .. n
  <2> HAVE k <= l
  <2>1. k < l \/ k = l
    OBVIOUS
  <2>2. cut[k] \in Int /\ cut[l] \in Int
    BY <1>5
  <2> QED BY <1>1, <2>1, <2>2
<1>7. \A b \in 1 .. n - 1 : b \in 1 .. n /\ b + 1 \in 1 .. n
  BY <1>1
<1>8. ASSUME NEW b \in DOMAIN g
      PROVE  /\ g[b].start \in Positions(p) /\ g[b].finish \in 2 .. Len(p) + 1
             /\ g[b].start < g[b].finish
             /\ {g[b].start, g[b].finish} \subseteq boundaries
             /\ \A i \in boundaries : i <= g[b].start \/ g[b].finish <= i
  <2>1. b \in 1 .. n /\ b + 1 \in 1 .. n /\ b \in Int
    BY <1>2, <1>7
  <2>2. g[b].start = cut[b] /\ g[b].finish = cut[b + 1]
    BY <1>2
  <2>3. cut[b] < cut[b + 1] /\ cut[b] \in 1 .. Len(p) + 1 /\ cut[b + 1] \in 1 .. Len(p) + 1
    BY <1>1, <1>5, <2>1
  <2>4. cut[b] \in 1 .. Len(p) /\ cut[b + 1] \in 2 .. Len(p) + 1
    BY <1>3, <2>3
  <2>5. \A i \in boundaries : i <= cut[b] \/ cut[b + 1] <= i
    <3> TAKE i \in boundaries
    <3>1. PICK k \in 1 .. n : cut[k] = i
      BY <1>1
    <3>2. k <= b \/ b + 1 <= k
      BY <2>1
    <3> QED BY <1>6, <2>1, <3>1, <3>2
  <2> QED BY <1>1, <2>1, <2>2, <2>3, <2>4, <2>5 DEF Positions
<1>9. ASSUME NEW i \in boundaries \cap Positions(p) PROVE \E b \in DOMAIN g : g[b].start = i
  <2>1. PICK k \in 1 .. n : cut[k] = i
    BY <1>1
  <2>2. k # n
    BY <1>1, <1>3, <2>1 DEF Positions
  <2>3. k \in 1 .. n - 1
    BY <1>1, <2>2
  <2> QED BY <1>2, <2>1, <2>3
<1>10. ASSUME NEW i \in Positions(p)
       PROVE  \E b \in DOMAIN g : g[b].start <= i /\ i < g[b].finish
  <2> DEFINE Above == {k \in 1 .. n : i < cut[k]}
  <2>1. i \in Int /\ 1 <= i /\ i < Len(p) + 1
    BY <1>3 DEF Positions
  <2>2. n \in Above
    BY <1>1, <2>1
  <2>3. Above \in SUBSET Nat
    OBVIOUS
  <2>4. PICK m \in Above : \A k \in Above : m <= k
    BY <2>2, <2>3, LeastNatural
  <2>5. m # 1
    BY <1>1, <2>1, <2>4
  <2>6. m - 1 \in 1 .. n - 1 /\ m - 1 \in 1 .. n /\ (m - 1) + 1 = m /\ ~(m <= m - 1)
    BY <1>1, <2>4, <2>5
  <2>7. cut[m - 1] <= i
    BY <1>5, <2>1, <2>4, <2>6
  <2>8. i < cut[m]
    BY <2>4
  <2>9. g[m - 1].start = cut[m - 1] /\ g[m - 1].finish = cut[m]
    BY <1>2, <2>6
  <2> QED BY <1>2, <2>6, <2>7, <2>8, <2>9
<1>11. ASSUME NEW b \in DOMAIN g, NEW c \in DOMAIN g, b < c PROVE g[b].finish <= g[c].start
  <2>1. b + 1 \in 1 .. n /\ c \in 1 .. n /\ b + 1 <= c
    BY <1>2, <1>7, <1>11
  <2>2. g[b].finish = cut[b + 1] /\ g[c].start = cut[c]
    BY <1>2
  <2> QED BY <1>6, <2>1, <2>2
<1> QED BY <1>2, <1>4, <1>8, <1>9, <1>10, <1>11 DEF Tiles, g

\* The registers of a block, and the blocks that may follow it.
LEMMA BlocksDescribe ==
  ASSUME NEW p, IsProgram(p), NEW boundaries, IsCut(p, boundaries)
  PROVE  Describes(p, BlocksBetween(p, boundaries))
<1> DEFINE cut == SortedBoundaries(boundaries)
           n == Len(cut)
           g == BlocksBetween(p, boundaries)
<1>1. Tiles(p, boundaries, g)
  BY BlocksTile
<1>2. /\ DOMAIN g = 1 .. n - 1
      /\ \A b \in 1 .. n - 1 :
           /\ g[b].start = cut[b] /\ g[b].finish = cut[b + 1]
           /\ g[b].read = UpwardExposed(p, g[b].start, g[b].finish)
           /\ g[b].consumed = ConsumedIn(p, g[b].start, g[b].finish)
           /\ g[b].exit = ExitRegisters(p, g[b].start, g[b].finish)
           /\ g[b].next = {BlockIndex(cut, i) : i \in SuccessorPositions(p, g[b].start, g[b].finish)}
  BY DEF BlocksBetween
<1> HIDE DEF g
<1>3. \A i \in boundaries \cap Positions(p) :
        BlockIndex(cut, i) \in DOMAIN g /\ g[BlockIndex(cut, i)].start = i
  <2> TAKE i \in boundaries \cap Positions(p)
  <2>1. \E b \in DOMAIN g : g[b].start = i
    BY <1>1 DEF Tiles
  <2>2. \E b \in 1 .. Len(cut) - 1 : cut[b] = i
    BY <1>2, <2>1
  <2>3. BlockIndex(cut, i) \in 1 .. Len(cut) - 1 /\ cut[BlockIndex(cut, i)] = i
    BY <2>2 DEF BlockIndex
  <2> QED BY <1>2, <2>3
<1>4. ASSUME NEW b \in DOMAIN g
      PROVE  SuccessorPositions(p, g[b].start, g[b].finish) \subseteq boundaries \cap Positions(p)
  <2> DEFINE s == g[b].start
             e == g[b].finish
  <2>1. /\ s \in Positions(p) /\ e \in 2 .. Len(p) + 1 /\ e \in boundaries
        /\ Len(p) \in Nat
    BY <1>1 DEF Tiles, IsProgram
  <2>2. e # Len(p) + 1 => e \in Positions(p)
    BY <2>1 DEF Positions
  <2>3. s .. e - 1 \subseteq Positions(p)
    BY <2>1 DEF Positions
  <2>4. \A i \in s .. e - 1 :
          p[i].branch = "relative" => TargetIndex(p, i) \in boundaries \cap Positions(p)
    BY <2>3 DEF IsCut
  <2> QED BY <2>1, <2>2, <2>4 DEF SuccessorPositions
<1>5. ASSUME NEW b \in DOMAIN g
      PROVE  /\ g[b].next \subseteq DOMAIN g
             /\ {g[c].start : c \in g[b].next} = SuccessorPositions(p, g[b].start, g[b].finish)
  <2> DEFINE S == SuccessorPositions(p, g[b].start, g[b].finish)
  <2>1. \A i \in S : BlockIndex(cut, i) \in DOMAIN g /\ g[BlockIndex(cut, i)].start = i
    BY <1>3, <1>4
  <2>2. g[b].next = {BlockIndex(cut, i) : i \in S}
    BY <1>2
  <2> HIDE DEF S
  <2>3. g[b].next \subseteq DOMAIN g
    BY <2>1, <2>2
  <2>4. {g[c].start : c \in g[b].next} = S
    BY <2>1, <2>2
  <2> QED BY <2>3, <2>4 DEF S
<1> QED BY <1>2, <1>5 DEF Describes, g

\* What compute_liveliness is given is what its proofs assume of a graph.
LEMMA GraphsWellFormed ==
  ASSUME NEW p, IsProgram(p), NEW boundaries, IsCut(p, boundaries),
         NEW g, Tiles(p, boundaries, g), Describes(p, g)
  PROVE  Loop!WellFormed(g)
<1> SUFFICES ASSUME NEW b \in DOMAIN g
             PROVE  /\ g[b].read \subseteq Registers
                    /\ g[b].exit \subseteq Registers
                    /\ g[b].next \subseteq DOMAIN g
  BY DEF Loop!WellFormed, Tiles
<1>1. g[b].start .. g[b].finish - 1 \subseteq Positions(p)
  BY SMTT(40) DEF Tiles, IsProgram, Positions
<1>2. \A i \in Positions(p) : InstructionReads(p[i]) \subseteq Registers
  BY DEF IsProgram, InstructionReads
<1>3. g[b].read \subseteq Registers
  BY <1>1, <1>2 DEF Describes, UpwardExposed
<1>4. g[b].exit \subseteq Registers
  BY DEF Describes, ExitRegisters
<1> QED BY <1>3, <1>4 DEF Describes

(***************************************************************************)
(* Inside a block control moves straight through.                          *)
(***************************************************************************)

\* Only the last instruction of a block branches, a target starts a block, and a
\* static instruction is alone.
LEMMA StraightThrough ==
  ASSUME NEW p, IsProgram(p), NEW boundaries, IsCut(p, boundaries),
         NEW g, Tiles(p, boundaries, g), Describes(p, g),
         NEW b \in DOMAIN g, NEW i \in g[b].start .. g[b].finish - 1
  PROVE  /\ i \in Positions(p) /\ g[b].finish - 1 \in Positions(p)
         /\ p[i].branch # "none" => i + 1 = g[b].finish
         /\ p[i].branch = "relative" => \E t \in g[b].next : g[t].start = TargetIndex(p, i)
         /\ p[i].static => g[b].start = i /\ g[b].finish = i + 1
<1> DEFINE s == g[b].start
           e == g[b].finish
<1>1. /\ s \in Positions(p) /\ e \in 2 .. Len(p) + 1 /\ s < e
      /\ \A k \in boundaries : k <= s \/ e <= k
      /\ Len(p) \in Nat
  BY DEF Tiles, IsProgram
<1>2. i \in Positions(p) /\ e - 1 \in Positions(p) /\ i \in Int /\ s \in Int /\ e \in Int
  BY SMTT(40), <1>1 DEF Positions
<1> HIDE DEF s, e
<1>3. s <= i /\ i < e
  BY <1>2 DEF s, e
<1>4. i + 1 \in boundaries => i + 1 = e
  <2>1. i + 1 \in boundaries => e <= i + 1
    BY <1>1, <1>2, <1>3
  <2> QED BY <1>2, <1>3, <2>1
<1>5. i \in boundaries => s = i
  <2>1. i \in boundaries => i <= s
    BY <1>1, <1>2, <1>3
  <2> QED BY <1>2, <1>3, <2>1
<1>6. /\ p[i].branch # "none" => i + 1 \in boundaries
      /\ p[i].static => i \in boundaries /\ i + 1 \in boundaries
  BY <1>2 DEF IsCut
<1>7. p[i].branch = "relative" => TargetIndex(p, i) \in SuccessorPositions(p, s, e)
  <2>1. i \in s .. e - 1
    BY DEF s, e
  <2> QED BY <2>1 DEF SuccessorPositions
<1>8. p[i].branch = "relative" => TargetIndex(p, i) \in {g[c].start : c \in g[b].next}
  BY <1>7 DEF Describes, s, e
<1> QED BY <1>2, <1>4, <1>5, <1>6, <1>8 DEF s, e

\* Every position lies in exactly one block.
LEMMA OneBlockEach ==
  ASSUME NEW p, IsProgram(p), NEW boundaries, NEW g, Tiles(p, boundaries, g),
         NEW i \in Positions(p)
  PROVE  Cardinality({b \in DOMAIN g : i \in g[b].start .. g[b].finish - 1}) = 1
<1>1. i \in Int /\ \A b \in DOMAIN g : g[b].start \in Int /\ g[b].finish \in Int /\ b \in Int
  BY DEF Tiles, Positions
<1>2. PICK b \in DOMAIN g : g[b].start <= i /\ i < g[b].finish
  BY DEF Tiles
<1>3. \A c \in DOMAIN g : c < b => g[c].finish <= g[b].start
  BY DEF Tiles
<1>4. \A c \in DOMAIN g : b < c => g[b].finish <= g[c].start
  BY DEF Tiles
<1>5. \A c \in DOMAIN g : g[c].start <= i /\ i < g[c].finish => c = b
  BY <1>1, <1>2, <1>3, <1>4
<1>6. \A c \in DOMAIN g : i \in g[c].start .. g[c].finish - 1 <=> g[c].start <= i /\ i < g[c].finish
  BY <1>1
<1>7. {c \in DOMAIN g : i \in g[c].start .. g[c].finish - 1} = {b}
  BY <1>2, <1>5, <1>6
<1> QED BY <1>7, FS_Singleton

(***************************************************************************)
(* The registers that are needed.                                          *)
(***************************************************************************)

\* The least closed set is closed.
LEMMA NeededIsClosed ==
  ASSUME NEW p, NEW r
  PROVE  NeededClosed(p, r, NeededBefore(p, r))
<1> SUFFICES ASSUME NEW i \in Positions(p),
                    \/ r \in InstructionReads(p[i])
                    \/ r \notin InstructionWrites(p[i]) /\ ReachesFrom(p, r, i, NeededBefore(p, r)),
                    NEW s \in SUBSET Positions(p), NeededClosed(p, r, s)
             PROVE  i \in s
  BY DEF NeededClosed, NeededBefore
<1>1. NeededBefore(p, r) \subseteq s
  BY DEF NeededBefore
<1>2. ReachesFrom(p, r, i, NeededBefore(p, r)) => ReachesFrom(p, r, i, s)
  BY <1>1 DEF ReachesFrom
<1> QED BY <1>2 DEF NeededClosed

\* What is needed at a position is needed at every earlier one, up to a write.
LEMMA NeededEarlier ==
  ASSUME NEW p, IsProgram(p), NEW r, NEW s \in Positions(p), NEW i \in Positions(p), s <= i,
         i \in NeededBefore(p, r),
         \A j \in s .. i - 1 : r \notin InstructionWrites(p[j])
  PROVE  s \in NeededBefore(p, r)
<1> DEFINE back == {k \in Nat : i - k \in NeededBefore(p, r)}
<1>1. s \in Nat /\ i \in Nat /\ Len(p) \in Nat /\ 1 <= s /\ i <= Len(p)
  BY DEF Positions, IsProgram
<1>2. 0 \in back
  BY <1>1
<1>3. ASSUME NEW k \in 0 .. (i - s) - 1, k \in back PROVE k + 1 \in back
  <2> DEFINE j == i - (k + 1)
  <2>1. j \in Positions(p) /\ j + 1 \in Positions(p) /\ j \in s .. i - 1 /\ j + 1 = i - k
    BY <1>1 DEF Positions
  <2> HIDE DEF j
  <2>2. j + 1 \in NeededBefore(p, r)
    BY <1>3, <2>1
  <2>3. ReachesFrom(p, r, j, NeededBefore(p, r))
    BY <2>1, <2>2 DEF ReachesFrom, InstructionSuccessors
  <2>4. r \notin InstructionWrites(p[j])
    BY <2>1
  <2>5. j \in NeededBefore(p, r)
    BY <2>1, <2>3, <2>4, NeededIsClosed DEF NeededClosed
  <2> QED BY <2>5 DEF j
<1>4. 0 .. (i - s) \subseteq back
  <2> HIDE DEF back
  <2>1. i - s \in Nat
    BY <1>1
  <2>2. \A k \in 0 .. (i - s) - 1 : k \in back => k + 1 \in back
    BY <1>3
  <2> QED BY <1>2, <2>1, <2>2, Counting
<1>5. i - s \in 0 .. (i - s) /\ i - (i - s) = s
  BY <1>1
<1> QED BY <1>4, <1>5

\* The registers needed before and after the blocks of a graph.
NeededIn(p, g) == [b \in DOMAIN g |-> {r \in Registers : g[b].start \in NeededBefore(p, r)}]
NeededOut(p, g) == [b \in DOMAIN g |-> NeededAfter(p, g[b].finish - 1)]

\* They solve the equations of the blocks.
LEMMA NeededIsSolution ==
  ASSUME NEW p, IsProgram(p), NEW boundaries, IsCut(p, boundaries),
         NEW g, Tiles(p, boundaries, g), Describes(p, g)
  PROVE  LoopProofs!Chaotic!IsSolution(g, NeededIn(p, g), NeededOut(p, g))
<1> SUFFICES ASSUME NEW b \in DOMAIN g
             PROVE  /\ g[b].read \subseteq NeededIn(p, g)[b]
                    /\ g[b].exit \subseteq NeededOut(p, g)[b]
                    /\ NeededOut(p, g)[b] \ g[b].consumed \subseteq NeededIn(p, g)[b]
                    /\ \A c \in g[b].next : NeededIn(p, g)[c] \subseteq NeededOut(p, g)[b]
  BY DEF LoopProofs!Chaotic!IsSolution
<1> DEFINE s == g[b].start
           e == g[b].finish
<1>1. /\ s \in Positions(p) /\ e - 1 \in Positions(p) /\ s <= e - 1 /\ e - 1 \in s .. e - 1
      /\ s .. e - 1 \subseteq Positions(p) /\ e \in Int /\ s \in Int
  <2>1. s \in Positions(p) /\ e \in 2 .. Len(p) + 1 /\ s < e /\ Len(p) \in Nat
    BY DEF Tiles, IsProgram
  <2> HIDE DEF s, e
  <2> QED BY <2>1 DEF Positions
<1>2. /\ g[b].read = UpwardExposed(p, s, e) /\ g[b].consumed = ConsumedIn(p, s, e)
      /\ g[b].exit = ExitRegisters(p, s, e) /\ g[b].next \subseteq DOMAIN g
      /\ {g[c].start : c \in g[b].next} = SuccessorPositions(p, s, e)
  BY DEF Describes
<1>3. \A i \in s .. e - 1 : p[i].branch # "none" => i = e - 1
  <2>1. \A i \in s .. e - 1 : p[i].branch # "none" => i + 1 = e
    BY StraightThrough
  <2> HIDE DEF s, e
  <2> QED BY <1>1, <2>1
<1>4. NeededOut(p, g)[b] = NeededAfter(p, e - 1)
  BY DEF NeededOut
<1>5. \A c \in DOMAIN g : NeededIn(p, g)[c] = {r \in Registers : g[c].start \in NeededBefore(p, r)}
  BY DEF NeededIn
<1>6. \A c \in g[b].next : g[c].start \in SuccessorPositions(p, s, e)
  BY <1>2
<1> HIDE DEF s, e
<1>7. g[b].read \subseteq NeededIn(p, g)[b]
  <2> SUFFICES ASSUME NEW r \in UpwardExposed(p, s, e) PROVE r \in Registers /\ s \in NeededBefore(p, r)
    BY <1>2, <1>5 DEF s
  <2>1. PICK i \in s .. e - 1 :
          /\ r \in InstructionReads(p[i])
          /\ r \notin UNION {InstructionWrites(p[j]) : j \in s .. i - 1}
    BY DEF UpwardExposed
  <2>2. i \in Positions(p) /\ s <= i
    BY <1>1, <2>1
  <2>3. i \in NeededBefore(p, r)
    BY <2>1, <2>2, NeededIsClosed DEF NeededClosed
  <2>4. \A j \in s .. i - 1 : r \notin InstructionWrites(p[j])
    BY <2>1
  <2>5. r \in Registers
    BY <2>1, <2>2 DEF IsProgram, InstructionReads
  <2> QED BY <1>1, <2>2, <2>3, <2>4, <2>5, NeededEarlier
<1>8. g[b].exit \subseteq NeededOut(p, g)[b]
  BY <1>2, <1>3, <1>4 DEF ExitRegisters, NeededAfter, ReachesFrom
<1>9. NeededOut(p, g)[b] \ g[b].consumed \subseteq NeededIn(p, g)[b]
  <2> SUFFICES ASSUME NEW r \in NeededAfter(p, e - 1), r \notin ConsumedIn(p, s, e)
               PROVE  r \in Registers /\ s \in NeededBefore(p, r)
    BY <1>2, <1>4, <1>5 DEF s
  <2>1. \A j \in s .. e - 1 : r \notin InstructionWrites(p[j])
    BY DEF ConsumedIn
  <2>2. r \in Registers /\ ReachesFrom(p, r, e - 1, NeededBefore(p, r))
    BY DEF NeededAfter
  <2>3. e - 1 \in NeededBefore(p, r)
    BY <1>1, <2>1, <2>2, NeededIsClosed DEF NeededClosed
  <2>4. \A j \in s .. (e - 1) - 1 : r \notin InstructionWrites(p[j])
    BY <1>1, <2>1
  <2> QED BY <1>1, <2>2, <2>3, <2>4, NeededEarlier
<1>10. ASSUME NEW c \in g[b].next PROVE NeededIn(p, g)[c] \subseteq NeededOut(p, g)[b]
  <2> SUFFICES ASSUME NEW r \in Registers, g[c].start \in NeededBefore(p, r)
               PROVE  ReachesFrom(p, r, e - 1, NeededBefore(p, r))
    BY <1>2, <1>4, <1>5 DEF NeededAfter
  <2>1. g[c].start \in Positions(p)
    BY <1>2 DEF Tiles
  <2>2. \/ g[c].start = e
        \/ \E i \in s .. e - 1 : p[i].branch = "relative" /\ g[c].start = TargetIndex(p, i)
    BY <1>6 DEF SuccessorPositions
  <2>3. g[c].start \in InstructionSuccessors(p, e - 1)
    <3>1. CASE g[c].start = e
      BY <1>1, <2>1, <3>1 DEF InstructionSuccessors
    <3>2. CASE \E i \in s .. e - 1 : p[i].branch = "relative" /\ g[c].start = TargetIndex(p, i)
      BY <1>3, <3>2 DEF InstructionSuccessors
    <3> QED BY <2>2, <3>1, <3>2
  <2> QED BY <2>3 DEF ReachesFrom
<1> QED BY <1>7, <1>8, <1>9, <1>10

\* Blocks do not overlap.
LEMMA SameBlock ==
  ASSUME NEW p, NEW boundaries, NEW g, IsProgram(p), Tiles(p, boundaries, g),
         NEW b \in DOMAIN g, NEW c \in DOMAIN g, NEW i \in Positions(p),
         g[b].start <= i, i < g[b].finish, g[c].start <= i, i < g[c].finish
  PROVE  b = c
<1>1. \A a \in DOMAIN g : g[a].start \in Int /\ g[a].finish \in Int /\ a \in Int
  <2> SUFFICES ASSUME NEW a \in DOMAIN g PROVE g[a].start \in Int /\ g[a].finish \in Int /\ a \in Int
    OBVIOUS
  <2>1. a \in 1 .. Len(g) /\ g[a].start \in 1 .. Len(p) /\ g[a].finish \in 2 .. Len(p) + 1
    BY DEF Tiles, Positions
  <2> QED BY <2>1
<1>3. i \in Int
  BY DEF Positions
<1>2. (b < c => g[b].finish <= g[c].start) /\ (c < b => g[c].finish <= g[b].start)
  BY DEF Tiles
<1> QED BY <1>1, <1>2, <1>3

\* The positions at which sets live out of the blocks say that r may be read later:
\* in the block, or behind it.
ReadInBlock(p, r, i, e) ==
  \E k \in i .. e - 1 :
    r \in InstructionReads(p[k]) /\ \A j \in i .. k - 1 : r \notin InstructionWrites(p[j])
ReadBehind(p, r, i, e, outOfBlock) ==
  r \in outOfBlock /\ \A j \in i .. e - 1 : r \notin InstructionWrites(p[j])
LiveBefore(p, g, out, r) ==
  {i \in Positions(p) : \E b \in DOMAIN g :
     /\ g[b].start <= i /\ i < g[b].finish
     /\ ReadInBlock(p, r, i, g[b].finish) \/ ReadBehind(p, r, i, g[b].finish, out[b])}

\* Where a solution says so at the start of a block, it says so of the block.
LEMMA LiveAtStart ==
  ASSUME NEW p, IsProgram(p), NEW boundaries, IsCut(p, boundaries),
         NEW g, Tiles(p, boundaries, g), Describes(p, g),
         NEW in, NEW out, LoopProofs!Chaotic!IsSolution(g, in, out),
         NEW b \in DOMAIN g, NEW r, g[b].start \in LiveBefore(p, g, out, r)
  PROVE  r \in in[b]
<1> DEFINE s == g[b].start
           e == g[b].finish
<1>1. s \in Positions(p) /\ s < e /\ s \in Int /\ e \in Int /\ s <= s
  BY DEF Tiles, Positions
<1>2. PICK c \in DOMAIN g :
        /\ g[c].start <= s /\ s < g[c].finish
        /\ ReadInBlock(p, r, s, g[c].finish) \/ ReadBehind(p, r, s, g[c].finish, out[c])
  BY DEF LiveBefore
<1>3. c = b
  BY <1>1, <1>2, SameBlock
<1>4. /\ UpwardExposed(p, s, e) \subseteq in[b]
      /\ out[b] \ ConsumedIn(p, s, e) \subseteq in[b]
  BY DEF Describes, LoopProofs!Chaotic!IsSolution
<1> HIDE DEF s
<1>5. CASE ReadInBlock(p, r, s, e)
  BY <1>4, <1>5 DEF ReadInBlock, UpwardExposed
<1>6. CASE ReadBehind(p, r, s, e, out[b])
  BY <1>4, <1>6 DEF ReadBehind, ConsumedIn
<1> QED BY <1>2, <1>3, <1>5, <1>6

\* What a block's last instruction can reach is in the set live out of it.
LEMMA LiveAtEnd ==
  ASSUME NEW p, IsProgram(p), NEW boundaries, IsCut(p, boundaries),
         NEW g, Tiles(p, boundaries, g), Describes(p, g),
         NEW in, NEW out, LoopProofs!Chaotic!IsSolution(g, in, out),
         NEW b \in DOMAIN g, NEW r \in Registers,
         ReachesFrom(p, r, g[b].finish - 1, LiveBefore(p, g, out, r))
  PROVE  r \in out[b]
<1> DEFINE s == g[b].start
           e == g[b].finish
<1>1. s \in Positions(p) /\ e \in 2 .. Len(p) + 1 /\ s < e /\ s \in Int /\ e \in Int /\ Len(p) \in Nat
  BY DEF Tiles, Positions, IsProgram
<1>2. /\ ExitRegisters(p, s, e) \subseteq out[b]
      /\ \A c \in g[b].next : in[c] \subseteq out[b]
      /\ g[b].next \subseteq DOMAIN g
      /\ {g[c].start : c \in g[b].next} = SuccessorPositions(p, s, e)
  BY DEF Describes, LoopProofs!Chaotic!IsSolution
<1> HIDE DEF s, e
<1>3. e - 1 \in s .. e - 1
  BY <1>1
<1>4. CASE p[e - 1].branch = "register"
  BY <1>2, <1>3, <1>4 DEF ExitRegisters
<1>5. CASE p[e - 1].branch # "register"
  <2>1. PICK j \in InstructionSuccessors(p, e - 1) : j \in LiveBefore(p, g, out, r)
    BY <1>5 DEF ReachesFrom, e
  <2>2. j \in SuccessorPositions(p, s, e)
    <3>1. CASE j \in Positions(p) /\ j = (e - 1) + 1
      BY <1>1, <3>1 DEF SuccessorPositions, Positions
    <3>2. CASE p[e - 1].branch = "relative" /\ j = TargetIndex(p, e - 1)
      BY <1>3, <3>2 DEF SuccessorPositions
    <3> QED BY <2>1, <3>1, <3>2 DEF InstructionSuccessors
  <2>3. PICK c \in g[b].next : g[c].start = j
    BY <1>2, <2>2
  <2>4. r \in in[c]
    BY <1>2, <2>1, <2>3, LiveAtStart
  <2> QED BY <1>2, <2>4
<1> QED BY <1>4, <1>5

\* So the positions a solution says it of are closed, and all needed ones are among them.
LEMMA SolutionIsClosed ==
  ASSUME NEW p, IsProgram(p), NEW boundaries, IsCut(p, boundaries),
         NEW g, Tiles(p, boundaries, g), Describes(p, g),
         NEW in, NEW out, LoopProofs!Chaotic!IsSolution(g, in, out), NEW r \in Registers
  PROVE  NeededClosed(p, r, LiveBefore(p, g, out, r))
<1> SUFFICES ASSUME NEW i \in Positions(p),
                    \/ r \in InstructionReads(p[i])
                    \/ /\ r \notin InstructionWrites(p[i])
                       /\ ReachesFrom(p, r, i, LiveBefore(p, g, out, r))
             PROVE  i \in LiveBefore(p, g, out, r)
  BY DEF NeededClosed
<1>1. PICK b \in DOMAIN g : g[b].start <= i /\ i < g[b].finish
  BY DEF Tiles
<1> DEFINE s == g[b].start
           e == g[b].finish
<1>2. /\ i \in Int /\ s \in Int /\ e \in Int /\ s \in Positions(p) /\ e \in 2 .. Len(p) + 1
      /\ Len(p) \in Nat
  BY SMTT(40) DEF Tiles, Positions, IsProgram
<1>3. i \in s .. e - 1 /\ i \in i .. e - 1 /\ i .. i - 1 = {}
  <2> HIDE DEF s, e
  <2> QED BY <1>1, <1>2 DEF s, e
<1>4. p[i].branch # "none" => i + 1 = e
  BY <1>3, StraightThrough
<1>5. SUFFICES ReadInBlock(p, r, i, e) \/ ReadBehind(p, r, i, e, out[b])
  BY <1>1 DEF LiveBefore
<1> HIDE DEF s, e
<1>6. CASE r \in InstructionReads(p[i])
  BY <1>3, <1>6 DEF ReadInBlock
<1>7. CASE /\ r \notin InstructionWrites(p[i])
           /\ ReachesFrom(p, r, i, LiveBefore(p, g, out, r))
  <2>1. CASE i + 1 = e
    <3>1. i = e - 1 /\ i .. e - 1 = {i}
      BY <1>2, <2>1
    <3>2. r \in out[b]
      BY <1>7, <3>1, LiveAtEnd DEF e
    <3> QED BY <1>7, <3>1, <3>2 DEF ReadBehind
  <2>2. CASE i + 1 # e
    <3>1. p[i].branch = "none" /\ i + 1 \in LiveBefore(p, g, out, r)
      BY <1>4, <1>7, <2>2 DEF ReachesFrom, InstructionSuccessors
    <3>2. i + 1 \in Positions(p) /\ s <= i + 1 /\ i + 1 < e
      BY <1>1, <1>2, <2>2, <3>1 DEF LiveBefore, s, e
    <3>3. PICK c \in DOMAIN g :
            /\ g[c].start <= i + 1 /\ i + 1 < g[c].finish
            /\ ReadInBlock(p, r, i + 1, g[c].finish) \/ ReadBehind(p, r, i + 1, g[c].finish, out[c])
      BY <3>1 DEF LiveBefore
    <3>4. c = b
      BY <3>2, <3>3, SameBlock DEF s, e
    <3>5. \A k : k \in i + 1 .. e - 1 => k \in i .. e - 1
      BY <1>2
    <3>6. \A j, k \in Int : j \in i .. k - 1 => j = i \/ j \in i + 1 .. k - 1
      BY <1>2
    <3>7. CASE ReadInBlock(p, r, i + 1, e)
      <4>1. PICK k \in i + 1 .. e - 1 :
              /\ r \in InstructionReads(p[k])
              /\ \A j \in i + 1 .. k - 1 : r \notin InstructionWrites(p[j])
        BY <3>7 DEF ReadInBlock
      <4>2. \A j \in i .. k - 1 : r \notin InstructionWrites(p[j])
        BY <1>7, <3>6, <4>1
      <4> QED BY <3>5, <4>1, <4>2 DEF ReadInBlock
    <3>8. CASE ReadBehind(p, r, i + 1, e, out[b])
      BY <1>2, <1>7, <3>6, <3>8 DEF ReadBehind
    <3> QED BY <3>3, <3>4, <3>7, <3>8 DEF e
  <2> QED BY <2>1, <2>2
<1> QED BY <1>6, <1>7

\* Every solution has what is needed behind a block live out of it.
LEMMA SolutionHasNeeded ==
  ASSUME NEW p, IsProgram(p), NEW boundaries, IsCut(p, boundaries),
         NEW g, Tiles(p, boundaries, g), Describes(p, g),
         NEW in, NEW out, LoopProofs!Chaotic!IsSolution(g, in, out), NEW b \in DOMAIN g
  PROVE  NeededAfter(p, g[b].finish - 1) \subseteq out[b]
<1> SUFFICES ASSUME NEW r \in Registers, ReachesFrom(p, r, g[b].finish - 1, NeededBefore(p, r))
             PROVE  r \in out[b]
  BY DEF NeededAfter
<1>1. LiveBefore(p, g, out, r) \in SUBSET Positions(p)
  BY DEF LiveBefore
<1>2. NeededBefore(p, r) \subseteq LiveBefore(p, g, out, r)
  BY <1>1, SolutionIsClosed DEF NeededBefore
<1>3. ReachesFrom(p, r, g[b].finish - 1, LiveBefore(p, g, out, r))
  BY <1>2 DEF ReachesFrom
<1> QED BY <1>3, LiveAtEnd

(***************************************************************************)
(* The invariant of the analysis.                                          *)
(***************************************************************************)

Analysed == BlocksBetween(program, ChosenBoundaries(program, split))

\* In the loop the blocks are those of the program, the facts of the loop hold and the
\* live sets are below every solution.
InLoop ==
  /\ IsProgram(program) /\ split \in BOOLEAN
  /\ ~AnalysisPanics(program) /\ graph = Analysed
  /\ LoopProofs!LoopFacts /\ LoopProofs!BelowEverySolution

\* What the proofs of the loop assume holds of the registers and the blocks.
LEMMA LoopAssumptions == LoopProofs!RegistersAssumption /\ LoopProofs!GraphsAssumption
<1>1. LoopProofs!GraphsAssumption
  BY DEF LoopProofs!GraphsAssumption
<1>2. LoopProofs!RegistersAssumption
  BY FiniteRegistersAssumption DEF LoopProofs!RegistersAssumption, IsFiniteSet, LoopProofs!IsFiniteSet
<1> QED BY <1>1, <1>2

\* The steps of the analysis are those that the proofs of the loop are about.
LEMMA LoopSteps == Loop!Next => LoopProofs!Next
<1>1. \A S : Loop!Cardinality(S) = LoopProofs!Cardinality(S)
  BY DEF LoopProofs!Cardinality, Loop!Cardinality
<1>2. Loop!Blocks = LoopProofs!Blocks
  BY DEF Loop!Blocks, LoopProofs!Blocks
<1>3. \A b : /\ Loop!NewLiveIn(b) = LoopProofs!NewLiveIn(b)
             /\ Loop!NewLiveOut(b) = LoopProofs!NewLiveOut(b)
  BY DEF Loop!NewLiveIn, LoopProofs!NewLiveIn, Loop!NewLiveOut, LoopProofs!NewLiveOut,
         Loop!SuccessorsLiveIn, LoopProofs!SuccessorsLiveIn
<1>4. \A b : Loop!VisitChanges(b) = LoopProofs!VisitChanges(b)
  BY <1>1, <1>3 DEF Loop!VisitChanges, LoopProofs!VisitChanges
<1>5. Loop!VisitBlock => LoopProofs!VisitBlock
  BY <1>2, <1>3, <1>4 DEF Loop!VisitBlock, LoopProofs!VisitBlock
<1>6. Loop!NextPass => LoopProofs!NextPass
  BY <1>2 DEF Loop!NextPass, LoopProofs!NextPass
<1>7. Loop!Return => LoopProofs!Return
  BY <1>2 DEF Loop!Return, LoopProofs!Return
<1> QED BY <1>5, <1>6, <1>7 DEF Loop!Next, LoopProofs!Next

\* The blocks that the loop works on.
LEMMA BuiltBlocks ==
  ASSUME IsProgram(program), split \in BOOLEAN, ~AnalysisPanics(program), graph = Analysed
  PROVE  /\ IsCut(program, ChosenBoundaries(program, split))
         /\ Tiles(program, ChosenBoundaries(program, split), graph) /\ Describes(program, graph)
         /\ Loop!WellFormed(graph) /\ LoopProofs!WellFormed(graph)
<1>1. IsCut(program, ChosenBoundaries(program, split))
  BY ChosenBoundariesCut
<1>2. Tiles(program, ChosenBoundaries(program, split), graph) /\ Describes(program, graph)
  BY <1>1, BlocksTile, BlocksDescribe DEF Analysed
<1>3. Loop!WellFormed(graph)
  BY <1>1, <1>2, GraphsWellFormed
<1> QED BY <1>1, <1>2, <1>3 DEF Loop!WellFormed, LoopProofs!WellFormed

\* The facts of the loop hold of what it begins with.
LEMMA LoopBegins ==
  LoopProofs!WellFormed(graph) /\ LoopProofs!Begins => LoopProofs!LoopFacts
BY LoopProofs!FactsAtFirst, LoopAssumptions

\* What both constructors leave is what the proofs of the loop begin with, and below every
\* solution, as solutions have the seeds.
LEMMA BuiltForLoop ==
  ASSUME IsProgram(program), NEW s \in BOOLEAN, FromProgram(s)
  PROVE  InLoop'
<1>1. /\ program' = program /\ split' = s /\ ~AnalysisPanics(program)
      /\ graph' = BlocksBetween(program, ChosenBoundaries(program, s))
      /\ liveIn' = [b \in DOMAIN graph' |-> graph'[b].read]
      /\ liveOut' = [b \in DOMAIN graph' |-> graph'[b].exit]
      /\ idx' = 1 /\ changed' = FALSE /\ done' = FALSE
  BY DEF FromProgram
<1>2. graph' = Analysed'
  BY <1>1 DEF Analysed
<1>3. (LoopProofs!WellFormed(graph))'
  <2>1. ASSUME NEW g, g = BlocksBetween(program, ChosenBoundaries(program, s))
        PROVE  LoopProofs!WellFormed(g)
    <3>1. IsCut(program, ChosenBoundaries(program, s))
      BY <1>1, ChosenBoundariesCut
    <3>2. Tiles(program, ChosenBoundaries(program, s), g) /\ Describes(program, g)
      BY <3>1, <2>1, BlocksTile, BlocksDescribe
    <3>3. Loop!WellFormed(g)
      BY <3>1, <3>2, GraphsWellFormed
    <3> QED BY <3>3 DEF Loop!WellFormed, LoopProofs!WellFormed
  <2>2. LoopProofs!WellFormed(graph')
    BY <1>1, <2>1
  <2> QED BY <2>2 DEF LoopProofs!WellFormed
<1>4. LoopProofs!Begins'
  BY <1>1 DEF LoopProofs!Begins, LoopProofs!Blocks
<1>5. (LoopProofs!WellFormed(graph) /\ LoopProofs!Begins => LoopProofs!LoopFacts)'
  BY LoopBegins, PTL
<1>6. (LoopProofs!Begins => LoopProofs!BelowEverySolution)'
  BY DEF LoopProofs!Begins, LoopProofs!BelowEverySolution, LoopProofs!Chaotic!IsSolution,
         LoopProofs!Blocks
<1> QED BY <1>1, <1>2, <1>3, <1>4, <1>5, <1>6 DEF InLoop

\* The loop keeps what it begins with, and the blocks.
LEMMA LoopKeeps ==
  ASSUME InLoop, ComputeLiveliness \/ UNCHANGED <<program, split, loopVars>>
  PROVE  InLoop' /\ program' = program /\ graph' = graph
<1>1. program' = program /\ split' = split
  BY DEF ComputeLiveliness
<1>2. [LoopProofs!Next]_(LoopProofs!vars)
  BY LoopSteps DEF ComputeLiveliness, loopVars, LoopProofs!vars
<1>3. LoopProofs!LoopFacts'
  BY <1>2, LoopProofs!FactsKept, LoopAssumptions DEF InLoop
<1>4. LoopProofs!BelowEverySolution'
  BY <1>2, LoopProofs!NextBelowEverySolution, LoopAssumptions DEF InLoop, LoopProofs!LoopFacts
<1>5. graph' = graph
  BY <1>2, LoopProofs!GraphUnchanged, LoopAssumptions
<1> QED BY <1>1, <1>3, <1>4, <1>5 DEF InLoop, Analysed

\* What is returned solves the equations, so it has all registers that are needed, and
\* those needed solve them too, so the least solution has no others.
LEMMA ReturnedIsExact ==
  ASSUME InLoop, done, NEW b \in DOMAIN graph
  PROVE  liveOut[b] = NeededAfter(program, graph[b].finish - 1)
<1>1. /\ IsCut(program, ChosenBoundaries(program, split))
      /\ Tiles(program, ChosenBoundaries(program, split), graph) /\ Describes(program, graph)
  BY BuiltBlocks DEF InLoop
<1>2. LoopProofs!Chaotic!IsSolution(graph, liveIn, liveOut)
  BY LoopProofs!QuietIsSolution, LoopAssumptions
  DEF InLoop, LoopProofs!LoopFacts, LoopProofs!ReturnedQuiet
<1>3. NeededAfter(program, graph[b].finish - 1) \subseteq liveOut[b]
  BY <1>1, <1>2, SolutionHasNeeded DEF InLoop
<1>4. /\ NeededIn(program, graph) \in [LoopProofs!Blocks -> SUBSET Registers]
      /\ NeededOut(program, graph) \in [LoopProofs!Blocks -> SUBSET Registers]
  BY DEF NeededIn, NeededOut, NeededAfter, LoopProofs!Blocks
<1>5. LoopProofs!Chaotic!IsSolution(graph, NeededIn(program, graph), NeededOut(program, graph))
  BY <1>1, NeededIsSolution DEF InLoop
<1>6. liveOut[b] \subseteq NeededOut(program, graph)[b]
  BY <1>4, <1>5 DEF InLoop, LoopProofs!BelowEverySolution, LoopProofs!Blocks
<1> QED BY <1>3, <1>6 DEF NeededOut

\* What is live while the analysis runs are registers.
LEMMA LoopTypes ==
  ASSUME InLoop
  PROVE  /\ Loop!WellFormed(graph)
         /\ liveIn \in [DOMAIN graph -> SUBSET Registers]
         /\ liveOut \in [DOMAIN graph -> SUBSET Registers]
<1>1. Loop!WellFormed(graph)
  BY BuiltBlocks DEF InLoop
<1> QED BY <1>1 DEF InLoop, LoopProofs!LoopFacts, LoopProofs!Shaped, LoopProofs!Blocks

\* Before the loop nothing is there.
AnalysisInv ==
  /\ program \in Programs /\ split \in BOOLEAN
  /\ phase \in {"entry", "liveliness", "panicked"}
  /\ phase # "liveliness" =>
       graph = <<>> /\ liveIn = <<>> /\ liveOut = <<>> /\ idx = 1
         /\ changed = FALSE /\ done = FALSE
  /\ phase = "liveliness" => InLoop

\* The loop begins as its proofs assume, and every step of it keeps what they show.
LEMMA AnalysisStep == AnalysisInv /\ [AnalysisNext]_analysisVars => AnalysisInv'
<1> SUFFICES ASSUME AnalysisInv, [AnalysisNext]_analysisVars PROVE AnalysisInv'
  OBVIOUS
<1>1. CASE phase = "entry" /\ FromProgram(split)
  <2>1. InLoop'
    BY <1>1, BuiltForLoop, ProgramsAssumption DEF AnalysisInv
  <2> QED BY <1>1, <2>1 DEF FromProgram, AnalysisInv
<1>2. CASE phase = "entry" /\ PanicInAnalysis
  BY <1>2 DEF PanicInAnalysis, AnalysisInv, loopVars
<1>3. CASE ComputeLiveliness
  <2>1. InLoop'
    BY <1>3, LoopKeeps DEF ComputeLiveliness, AnalysisInv
  <2> QED BY <1>3, <2>1 DEF ComputeLiveliness, AnalysisInv
<1>4. CASE UNCHANGED analysisVars
  <2>1. phase = "liveliness" => InLoop'
    BY <1>4, LoopKeeps DEF AnalysisInv, analysisVars
  <2> QED BY <1>4, <2>1 DEF analysisVars, loopVars, AnalysisInv
<1> QED BY <1>1, <1>2, <1>3, <1>4 DEF AnalysisNext

\* The analysis keeps its invariant.
LEMMA AnalysisInvHolds == AnalysisSpec => []AnalysisInv
<1>1. AnalysisInit => AnalysisInv
  BY DEF AnalysisInit, AnalysisInv
<1> QED BY <1>1, AnalysisStep, PTL DEF AnalysisSpec

\* Blocks tile the program in order and control moves straight through each; the graph
\* they make is one that compute_liveliness may be given.
THEOREM AnalysisInvariantHolds == AnalysisSpec => []AnalysisInvariant
<1>1. AnalysisInv => AnalysisTypeOK
  <2> SUFFICES ASSUME AnalysisInv PROVE AnalysisTypeOK
    OBVIOUS
  <2>1. Loop!WellFormed(graph)
    <3>1. CASE phase = "liveliness"
      BY <3>1, LoopTypes DEF AnalysisInv
    <3>2. CASE phase # "liveliness"
      BY <3>2 DEF AnalysisInv, Loop!WellFormed
    <3> QED BY <3>1, <3>2
  <2> QED BY <2>1, LoopTypes DEF AnalysisInv, AnalysisTypeOK
<1>2. AnalysisInv => BlocksAreStraightLine
  <2> SUFFICES ASSUME AnalysisInv, phase = "liveliness" PROVE BlocksAreStraightLine
    BY DEF BlocksAreStraightLine
  <2>1. /\ IsProgram(program) /\ IsCut(program, ChosenBoundaries(program, split))
        /\ Tiles(program, ChosenBoundaries(program, split), graph) /\ Describes(program, graph)
    BY BuiltBlocks DEF AnalysisInv, InLoop
  <2> QED BY <2>1, OneBlockEach, StraightThrough DEF BlocksAreStraightLine
<1> QED BY <1>1, <1>2, AnalysisInvHolds, PTL DEF AnalysisInvariant

\* The registers live out of a block are exactly those that some path from its last
\* instruction reads before surely overwriting them, for every program and both ways
\* of cutting it.
THEOREM LiveOutIsExactHolds == AnalysisSpec => []LiveOutIsExact
<1>1. AnalysisInv => LiveOutIsExact
  BY ReturnedIsExact DEF AnalysisInv, LiveOutIsExact
<1> QED BY <1>1, AnalysisInvHolds, PTL

(***************************************************************************)
(* What the hook may answer, and what lines compute.                       *)
(***************************************************************************)

\* A line that is neither a label nor a branch.
Computation(line) == line.op \notin {"label"} \cup RegisterBranches \cup LabelBranches

\* Lines has every line of the sources and of what the hook answers, whatever number it is
\* given.  An answer is any code whose labels are new, and that branches to these or to where
\* the line does.
Language(Lines) ==
  /\ \A line \in Lines : IsLine(line) /\ \A n \in Nat : [line EXCEPT !.tag = n] \in Lines
  /\ \A s \in Sources : \A n \in DOMAIN s : s[n] \in Lines
  /\ \A line \in Lines, scratch \in SUBSET Registers, n \in Nat :
       line.op # "label" /\ GivenBefore(n, line.label) =>
         \A x \in Expansions(line, scratch, n) : x \in Seq(Lines) /\ LabelsAreFresh(line, x, n)

States(Values) == [Registers -> Values]

\* Registers hold values, and what an operation leaves are values.
Computes(Lines, Values) ==
  /\ Starts \subseteq States(Values) /\ Lost \in Values
  /\ \A line \in Lines, regs \in States(Values) : \A k \in DOMAIN line.dest :
       Meaning(line.op, k, Arguments(regs, line)) \in Values

\* What the hook is asked for, from any values of the registers.
HookKeepsMeaning(Lines, Values) ==
  \A line \in Lines, scratch \in SUBSET Registers, n \in Nat :
    line.op # "label" /\ GivenBefore(n, line.label) =>
      \A x \in Expansions(line, scratch, n), regs \in States(Values) :
        Replicates(line, x, scratch, regs, Nat)

\* A line leaves values in the registers, and the other registers as they were.
LEMMA AssignTyped ==
  ASSUME NEW Lines, NEW Values, Language(Lines), Computes(Lines, Values),
         NEW line \in Lines, NEW regs \in States(Values)
  PROVE  /\ Assign(regs, line) \in States(Values)
         /\ \A r \in Registers : r \notin ToSet(line.dest) => Assign(regs, line)[r] = regs[r]
<1> DEFINE after == [r \in Registers |-> IF r \in ToSet(line.dest) THEN Result(regs, line, r) ELSE regs[r]]
<1>1. ASSUME NEW r \in ToSet(line.dest) PROVE Result(regs, line, r) \in Values
  <2> DEFINE k == CHOOSE k \in DOMAIN line.dest : line.dest[k] = r
  <2>1. \E k2 \in DOMAIN line.dest : line.dest[k2] = r
    BY <1>1 DEF ToSet
  <2>2. k \in DOMAIN line.dest
    BY <2>1
  <2>3. Result(regs, line, r) = Meaning(line.op, k, Arguments(regs, line))
    BY DEF Result
  <2> HIDE DEF k
  <2> QED BY <2>2, <2>3 DEF Computes
<1>2. after \in States(Values)
  BY <1>1 DEF States
<1>3. Assign(regs, line) = IF ~Happens(regs, line) THEN regs ELSE after
  BY DEF Assign
<1>4. \A r \in Registers : r \notin ToSet(line.dest) => after[r] = regs[r]
  OBVIOUS
<1> HIDE DEF after
<1> QED BY <1>2, <1>3, <1>4

\* Registers agree on a set.
Agree(u, v, set) == \A r \in set : u[r] = v[r]

\* The registers that a line writes whatever it reads.
Writes(line) == IF line.guard = "always" THEN ToSet(line.dest) ELSE {}

\* Whether a line happens, and what it leaves, depends on the registers that it reads.
LEMMA AssignAgrees ==
  ASSUME NEW Lines, Language(Lines), NEW line \in Lines, NEW u, NEW v,
         Agree(u, v, ToSet(line.args))
  PROVE  /\ Happens(u, line) <=> Happens(v, line)
         /\ \A r \in Registers : r \in Writes(line) \/ u[r] = v[r] =>
              Assign(u, line)[r] = Assign(v, line)[r]
<1>1. line.args \in Seq(Registers)
  BY DEF Language, IsLine
<1>2. Arguments(u, line) = Arguments(v, line)
  BY <1>1 DEF Arguments, Agree, ToSet
<1>3. Happens(u, line) <=> Happens(v, line)
  BY <1>2 DEF Happens
<1>4. \A r : Result(u, line, r) = Result(v, line, r)
  BY <1>2 DEF Result
<1>5. ASSUME NEW r \in Registers, r \in Writes(line) \/ u[r] = v[r]
      PROVE  Assign(u, line)[r] = Assign(v, line)[r]
  <2>1. CASE Happens(u, line)
    <3>1. /\ Assign(u, line)[r] = IF r \in ToSet(line.dest) THEN Result(u, line, r) ELSE u[r]
          /\ Assign(v, line)[r] = IF r \in ToSet(line.dest) THEN Result(v, line, r) ELSE v[r]
      BY <1>3, <2>1 DEF Assign
    <3>2. r \in ToSet(line.dest) \/ u[r] = v[r]
      BY <1>5 DEF Writes
    <3> QED BY <1>4, <3>1, <3>2
  <2>2. CASE ~Happens(u, line)
    <3>1. Assign(u, line) = u /\ Assign(v, line) = v
      BY <1>3, <2>2 DEF Assign
    <3>2. u[r] = v[r]
      BY <1>5, <2>2 DEF Writes, Happens
    <3> QED BY <3>1, <3>2
  <2> QED BY <2>1, <2>2
<1> QED BY <1>3, <1>5

\* u turns into after[Len(x)] line by line.
Assigns(after, u, x) ==
  after[0] = u /\ \A k \in 1 .. Len(x) : after[k] = Assign(after[k - 1], x[k])

\* AssignAll goes line by line.
LEMMA AssignAllGoes ==
  ASSUME NEW Lines, NEW Values, Language(Lines), Computes(Lines, Values),
         NEW x \in Seq(Lines), NEW regs \in States(Values)
  PROVE  \E after \in [0 .. Len(x) -> States(Values)] :
           Assigns(after, regs, x) /\ AssignAll(regs, x) = after[Len(x)]
<1> DEFINE n == Len(x)
           S == States(Values)
           Body(g) == [k \in 0 .. n |-> IF k = 0 THEN regs ELSE Assign(g[k - 1], x[k])]
           after == CHOOSE g : g = Body(g)
           step == [k \in 1 .. n |-> [u \in S |-> Assign(u, x[k])]]
<1>1. n \in Nat /\ \A k \in 1 .. n : x[k] \in Lines
  OBVIOUS
<1>2. AssignAll(regs, x) = after[n]
  BY DEF AssignAll
<1>3. step \in [1 .. n -> [S -> S]]
  BY <1>1, AssignTyped
<1>4. regs \in S
  OBVIOUS
<1> HIDE DEF S, n
<1>5. \E g : g = Body(g)
  <2> HIDE DEF step
  <2>1. PICK g \in [0 .. n -> S] : Follows(g, n, regs, step)
    BY <1>1, <1>3, <1>4, RecursionExists
  <2>2. g[0] = regs /\ \A k \in 1 .. n : g[k] = Assign(g[k - 1], x[k])
    <3>1. \A k \in 1 .. n : k - 1 \in 0 .. n
      BY <1>1
    <3> QED BY <2>1, <3>1 DEF Follows, step
  <2>3. g = Body(g)
    BY <1>1, <2>2
  <2> QED BY <2>3
<1>6. after = Body(after)
  <2> HIDE DEF Body
  <2> QED BY <1>5
<1> HIDE DEF after
<1>7. DOMAIN after = 0 .. n /\ after[0] = regs /\ \A k \in 1 .. n : after[k] = Assign(after[k - 1], x[k])
  <2>1. \A g : /\ DOMAIN Body(g) = 0 .. n /\ Body(g)[0] = regs
               /\ \A k \in 1 .. n : Body(g)[k] = Assign(g[k - 1], x[k])
    BY <1>1
  <2> HIDE DEF Body
  <2> QED BY <1>6, <2>1
<1> DEFINE Good == {k \in 0 .. n : after[k] \in S}
<1>8. 0 \in Good
  BY <1>1, <1>4, <1>7
<1>9. ASSUME NEW k \in 0 .. n - 1, k \in Good PROVE k + 1 \in Good
  <2>1. k + 1 \in 1 .. n /\ (k + 1) - 1 = k /\ k + 1 \in 0 .. n
    BY <1>1
  <2>2. after[k + 1] = Assign(after[k], x[k + 1])
    BY <1>7, <2>1
  <2>3. x[k + 1] \in Lines /\ after[k] \in States(Values)
    BY <1>1, <1>9, <2>1 DEF S
  <2> QED BY <2>1, <2>2, <2>3, AssignTyped DEF S
<1>10. \A k \in 0 .. n : after[k] \in S
  <2> HIDE DEF Good
  <2>1. 0 .. n \subseteq Good
    BY <1>1, <1>8, <1>9, Counting
  <2> QED BY <2>1 DEF Good
<1>11. after \in [0 .. n -> S]
  <2>1. after = [k \in 0 .. n |-> after[k]]
    BY <1>6, <1>7
  <2> QED BY <1>10, <2>1
<1> QED BY <1>2, <1>7, <1>11 DEF Assigns, S, n

(***************************************************************************)
(* The run of a file.                                                      *)
(***************************************************************************)

\* A line of a file, while it is rewritten too.
Runs(Lines, line) ==
  \/ line \in Lines
  \/ line.op = "label"
  \/ line.op = "best" /\ line.live \subseteq Registers /\ line.body \in Seq(Lines)

Runnable(Lines, f) ==
  /\ Len(f) \in Nat /\ DOMAIN f = 1 .. Len(f)
  /\ \A n \in DOMAIN f : Runs(Lines, f[n])
  /\ LabelsResolve(f)

Names(Lines) == {line.label : line \in Lines}
Moments(Lines, Values) == [pc : Nat, seen : Seq(Names(Lines)), regs : States(Values)]

\* A moment is made of its parts.
LEMMA MomentParts ==
  ASSUME NEW Lines, NEW Values, NEW s \in Moments(Lines, Values)
  PROVE  /\ s.pc \in Nat /\ s.seen \in Seq(Names(Lines)) /\ s.regs \in States(Values)
         /\ s = At(s.pc, s.seen, s.regs)
<1> DEFINE S == States(Values)
           T == Names(Lines)
<1>1. s \in [pc : Nat, seen : Seq(T), regs : S]
  BY DEF Moments
<1> HIDE DEF S, T
<1>2. /\ s.pc \in Nat /\ s.seen \in Seq(T) /\ s.regs \in S
      /\ s = [pc |-> s.pc, seen |-> s.seen, regs |-> s.regs]
  BY <1>1
<1> QED BY <1>2 DEF S, T, At

\* A moment of a run from its parts.
LEMMA MomentMade ==
  ASSUME NEW Lines, NEW Values, NEW pc \in Nat, NEW seen \in Seq(Names(Lines)), NEW regs \in States(Values)
  PROVE  At(pc, seen, regs) \in Moments(Lines, Values)
BY DEF At, Moments

\* And its parts again.
LEMMA PartsOfMoment ==
  \A pc, seen, regs :
    At(pc, seen, regs).pc = pc /\ At(pc, seen, regs).seen = seen /\ At(pc, seen, regs).regs = regs
BY DEF At

\* A label does nothing.
LEMMA LabelEffect ==
  ASSUME NEW f, NEW s, s.pc \in DOMAIN f, f[s.pc].op = "label"
  PROVE  ExecuteLine(f, s) = At(s.pc + 1, s.seen, s.regs)
BY OperationsAssumption DEF ExecuteLine

\* A rewritten block leaves the registers that live.
LEMMA BestEffect ==
  ASSUME NEW f, NEW s, s.pc \in DOMAIN f, f[s.pc].op = "best"
  PROVE  ExecuteLine(f, s) = At(s.pc + 1, s.seen, AssignBest(s.regs, f[s.pc]))
BY OperationsAssumption DEF ExecuteLine

\* Where a line leaves to: "out", through a register, "jump", to its label, or "on", to the
\* next line.
Exit(line, regs) ==
  IF line.op \in RegisterBranches /\ Happens(regs, line) THEN "out"
  ELSE IF line.op \in LabelBranches /\ Happens(regs, line) THEN "jump"
  ELSE "on"

\* An instruction assigns and leaves.
LEMMA InstructionEffect ==
  ASSUME NEW f, NEW s, s.pc \in DOMAIN f, NEW line, line = f[s.pc], line.op \notin {"label", "best"}
  PROVE  /\ Exit(line, s.regs) = "out" => ExecuteLine(f, s) = At(0, s.seen, Assign(s.regs, line))
         /\ Exit(line, s.regs) = "jump" =>
              /\ line.op \in LabelBranches
              /\ ExecuteLine(f, s)
                   = At(LabelLine(f, line.label), Jumped(s.seen, line.label), Assign(s.regs, line))
         /\ Exit(line, s.regs) = "on" => ExecuteLine(f, s) = At(s.pc + 1, s.seen, Assign(s.regs, line))
         /\ Exit(line, s.regs) \in {"out", "jump", "on"}
<1>1. CASE line.op \in RegisterBranches /\ Happens(s.regs, line)
  <2>1. line.op \notin LabelBranches
    BY <1>1, OperationsAssumption
  <2>2. ExecuteLine(f, s) = At(0, s.seen, Assign(s.regs, line))
    BY <1>1, <2>1 DEF ExecuteLine
  <2> QED BY <1>1, <2>2 DEF Exit
<1>2. CASE line.op \in LabelBranches /\ Happens(s.regs, line)
  <2>1. line.op \notin RegisterBranches
    BY <1>2, OperationsAssumption
  <2>2. ExecuteLine(f, s)
          = At(LabelLine(f, line.label), Jumped(s.seen, line.label), Assign(s.regs, line))
    BY <1>2, <2>1 DEF ExecuteLine
  <2> QED BY <1>2, <2>1, <2>2 DEF Exit
<1>3. CASE /\ ~(line.op \in RegisterBranches /\ Happens(s.regs, line))
           /\ ~(line.op \in LabelBranches /\ Happens(s.regs, line))
  <2>1. ExecuteLine(f, s) = At(s.pc + 1, s.seen, Assign(s.regs, line))
    BY <1>3 DEF ExecuteLine
  <2> QED BY <1>3, <2>1 DEF Exit
<1> QED BY <1>1, <1>2, <1>3

\* A label is where it is defined, and a branch goes to one.
LEMMA LabelsAreFound ==
  ASSUME NEW f, LabelsResolve(f)
  PROVE  /\ \A n \in DOMAIN f : f[n].op = "label" => LabelLine(f, f[n].label) = n
         /\ \A n \in DOMAIN f : f[n].op \in LabelBranches =>
              /\ LabelLine(f, f[n].label) \in DOMAIN f
              /\ f[LabelLine(f, f[n].label)].op = "label"
              /\ f[LabelLine(f, f[n].label)].label = f[n].label
<1>1. ASSUME NEW l, NEW m \in LabelsIn(f), f[m].label = l
      PROVE  LabelLine(f, l) \in LabelsIn(f) /\ f[LabelLine(f, l)].label = l
  BY <1>1 DEF LabelLine
<1>2. \A m : m \in LabelsIn(f) <=> m \in DOMAIN f /\ f[m].op = "label"
  BY DEF LabelsIn
<1>3. \A n \in DOMAIN f : f[n].op = "label" => LabelLine(f, f[n].label) = n
  BY <1>1, <1>2 DEF LabelsResolve
<1>4. ASSUME NEW n \in DOMAIN f, f[n].op \in LabelBranches
      PROVE  LabelLine(f, f[n].label) \in LabelsIn(f) /\ f[LabelLine(f, f[n].label)].label = f[n].label
  <2>1. PICK m \in LabelsIn(f) : f[m].label = f[n].label
    BY <1>4 DEF LabelsResolve
  <2> QED BY <1>1, <2>1
<1> QED BY <1>2, <1>3, <1>4

\* A rewritten block leaves values in the registers.
LEMMA AssignBestTyped ==
  ASSUME NEW Lines, NEW Values, Language(Lines), Computes(Lines, Values),
         NEW line, line.body \in Seq(Lines), NEW regs \in States(Values)
  PROVE  AssignBest(regs, line) \in States(Values)
<1> DEFINE kept == AssignAll(regs, line.body)
<1>1. PICK after \in [0 .. Len(line.body) -> States(Values)] : kept = after[Len(line.body)]
  BY AssignAllGoes
<1>2. kept \in States(Values)
  BY <1>1
<1>3. AssignBest(regs, line) = [r \in Registers |-> IF r \in line.live THEN kept[r] ELSE Lost]
  BY DEF AssignBest
<1> HIDE DEF kept
<1> QED BY <1>2, <1>3 DEF States, Computes

\* Running a line leads to a moment.
LEMMA ExecuteTyped ==
  ASSUME NEW Lines, NEW Values, Language(Lines), Computes(Lines, Values),
         NEW f, Runnable(Lines, f), NEW s \in Moments(Lines, Values)
  PROVE  ExecuteLine(f, s) \in Moments(Lines, Values)
<1> DEFINE line == f[s.pc]
<1>1. CASE s.pc \notin DOMAIN f
  BY <1>1 DEF ExecuteLine
<1>2. CASE s.pc \in DOMAIN f
  <2>1. s.pc \in Nat /\ s.regs \in States(Values) /\ s.seen \in Seq(Names(Lines))
    BY MomentParts
  <2>2. Runs(Lines, line) /\ DOMAIN f = 1 .. Len(f) /\ Len(f) \in Nat /\ LabelsResolve(f)
    BY <1>2 DEF Runnable
  <2>3. s.pc + 1 \in Nat /\ 0 \in Nat
    BY <2>1
  <2>4. CASE line.op = "label"
    <3>1. ExecuteLine(f, s) = At(s.pc + 1, s.seen, s.regs)
      BY <1>2, <2>4, LabelEffect
    <3> QED BY <2>1, <2>3, <3>1, MomentMade
  <2>5. CASE line.op = "best"
    <3>1. line \notin Lines
      BY <2>5 DEF Language, IsLine
    <3>2. AssignBest(s.regs, line) \in States(Values)
      BY <2>1, <2>2, <2>5, <3>1, AssignBestTyped DEF Runs
    <3>3. ExecuteLine(f, s) = At(s.pc + 1, s.seen, AssignBest(s.regs, line))
      BY <1>2, <2>5, BestEffect
    <3> QED BY <2>1, <2>3, <3>2, <3>3, MomentMade
  <2>6. CASE line.op \notin {"label", "best"}
    <3>1. line \in Lines
      BY <2>2, <2>6 DEF Runs
    <3>2. Assign(s.regs, line) \in States(Values)
      BY <2>1, <3>1, AssignTyped
    <3>3. /\ Exit(line, s.regs) = "out" => ExecuteLine(f, s) = At(0, s.seen, Assign(s.regs, line))
          /\ Exit(line, s.regs) = "jump" =>
               /\ line.op \in LabelBranches
               /\ ExecuteLine(f, s)
                    = At(LabelLine(f, line.label), Jumped(s.seen, line.label), Assign(s.regs, line))
          /\ Exit(line, s.regs) = "on" => ExecuteLine(f, s) = At(s.pc + 1, s.seen, Assign(s.regs, line))
          /\ Exit(line, s.regs) \in {"out", "jump", "on"}
      BY <1>2, <2>6, InstructionEffect
    <3>4. CASE Exit(line, s.regs) = "jump"
      <4>1. LabelLine(f, line.label) \in 1 .. Len(f)
        BY <1>2, <2>2, <3>3, <3>4, LabelsAreFound
      <4>2. LabelLine(f, line.label) \in Nat
        BY <2>2, <4>1
      <4>3. Jumped(s.seen, line.label) \in Seq(Names(Lines))
        <5>1. line.label \in Names(Lines)
          BY <3>1 DEF Names
        <5>2. Append(s.seen, line.label) \in Seq(Names(Lines))
          <6> HIDE DEF line
          <6> QED BY <2>1, <5>1
        <5> QED BY <2>1, <5>2 DEF Jumped
      <4> QED BY <3>2, <3>3, <3>4, <4>2, <4>3, MomentMade
    <3> QED BY <2>1, <2>3, <3>2, <3>3, <3>4, MomentMade
  <2> QED BY <2>4, <2>5, <2>6
<1> QED BY <1>1, <1>2

\* A stretch of a run, line by line.
LEMMA WalkGoes ==
  ASSUME NEW f, NEW g, \A k \in 0 .. Stretch - 1 : g[k + 1] = ExecuteLine(f, g[k])
  PROVE  \A k \in 0 .. Stretch : Walk(f, g[0])[k] = g[k]
<1> DEFINE n == Stretch
           Body(h) == [k \in 0 .. n |-> IF k = 0 THEN g[0] ELSE ExecuteLine(f, h[k - 1])]
           walk == CHOOSE h : h = Body(h)
           known == [k \in 0 .. n |-> g[k]]
<1>1. n \in Nat
  BY DEF Stretch
<1>2. Walk(f, g[0]) = walk
  BY DEF Walk
<1> HIDE DEF n
<1>3. known = Body(known)
  <2>1. ASSUME NEW k \in 0 .. n PROVE known[k] = Body(known)[k]
    <3>1. CASE k = 0
      BY <1>1, <3>1
    <3>2. CASE k # 0
      <4>1. k - 1 \in 0 .. n - 1 /\ k - 1 \in 0 .. n /\ (k - 1) + 1 = k
        BY <1>1, <3>2
      <4>2. g[k] = ExecuteLine(f, g[k - 1])
        BY <4>1 DEF n
      <4>3. known[k] = g[k] /\ known[k - 1] = g[k - 1]
        BY <4>1
      <4>4. Body(known)[k] = ExecuteLine(f, known[k - 1])
        BY <3>2
      <4> HIDE DEF known, Body
      <4> QED BY <4>2, <4>3, <4>4
    <3> QED BY <3>1, <3>2
  <2>2. DOMAIN Body(known) = 0 .. n /\ Body(known) = [k \in 0 .. n |-> Body(known)[k]]
    OBVIOUS
  <2>3. known = [k \in 0 .. n |-> known[k]]
    OBVIOUS
  <2> HIDE DEF known, Body
  <2> QED BY <2>1, <2>2, <2>3
<1>4. walk = Body(walk)
  <2> HIDE DEF Body, known
  <2> QED BY <1>3
<1> HIDE DEF walk
<1>5. walk[0] = g[0] /\ \A k \in 1 .. n : walk[k] = ExecuteLine(f, walk[k - 1])
  <2>1. \A h : Body(h)[0] = g[0] /\ \A k \in 1 .. n : Body(h)[k] = ExecuteLine(f, h[k - 1])
    BY <1>1
  <2> HIDE DEF Body
  <2> QED BY <1>4, <2>1
<1> DEFINE Good == {k \in 0 .. n : walk[k] = g[k]}
<1>6. 0 \in Good
  BY <1>1, <1>5
<1>7. ASSUME NEW k \in 0 .. n - 1, k \in Good PROVE k + 1 \in Good
  <2>1. k + 1 \in 1 .. n /\ (k + 1) - 1 = k /\ k + 1 \in 0 .. n
    BY <1>1
  <2>2. walk[k + 1] = ExecuteLine(f, walk[k]) /\ g[k + 1] = ExecuteLine(f, g[k])
    BY <1>5, <2>1 DEF n
  <2> QED BY <1>7, <2>1, <2>2
<1>8. 0 .. n \subseteq Good
  <2> HIDE DEF Good
  <2> QED BY <1>1, <1>6, <1>7, Counting
<1> QED BY <1>2, <1>8 DEF n

Start(regs) == At(1, <<>>, regs)

\* Every file runs, line by line and without end.
LEMMA RunGoes ==
  ASSUME NEW Lines, NEW Values, Language(Lines), Computes(Lines, Values),
         NEW f, Runnable(Lines, f), NEW regs \in States(Values)
  PROVE  /\ Run(f, regs)[0] = Start(regs)
         /\ \A n \in Nat : /\ Run(f, regs)[n] \in Moments(Lines, Values)
                           /\ Run(f, regs)[n + 1] = ExecuteLine(f, Run(f, regs)[n])
<1> DEFINE S == Moments(Lines, Values)
           step == [s \in S |-> ExecuteLine(f, s)]
           Next20(t) == CHOOSE u \in {Walk(f, before)[Stretch] : before \in {t}} : TRUE
           Body(h) == [n \in Nat |-> IF n <= Stretch THEN Walk(f, Start(regs))[n] ELSE Next20(h[n - Stretch])]
           run == CHOOSE h : h = Body(h)
<1>1. Run(f, regs) = run
  BY DEF Run, Start
<1>2. Start(regs) \in S
  <2>1. 1 \in Nat /\ <<>> \in Seq(Names(Lines))
    OBVIOUS
  <2> QED BY <2>1, MomentMade DEF Start
<1>3. step \in [S -> S]
  BY ExecuteTyped
<1>4. PICK g \in [Nat -> S] : g[0] = Start(regs) /\ \A k \in Nat : g[k + 1] = step[g[k]]
  <2> HIDE DEF S, step
  <2>1. \E g \in [Nat -> S] : Repeats(g, Start(regs), step)
    BY <1>2, <1>3, EndlessExists
  <2> QED BY <2>1 DEF Repeats
<1>5. \A k \in Nat : g[k] \in S /\ g[k + 1] = ExecuteLine(f, g[k])
  BY <1>4
<1>6. Stretch \in Nat \ {0}
  BY DEF Stretch
<1>7. ASSUME NEW m \in Nat, NEW k \in 0 .. Stretch PROVE Walk(f, g[m])[k] = g[m + k]
  <2> DEFINE h == [j \in Nat |-> g[m + j]]
  <2>1. \A j \in 0 .. Stretch - 1 : h[j + 1] = ExecuteLine(f, h[j])
    <3> SUFFICES ASSUME NEW j \in 0 .. Stretch - 1 PROVE h[j + 1] = ExecuteLine(f, h[j])
      OBVIOUS
    <3>1. j \in Nat /\ j + 1 \in Nat /\ m + j \in Nat /\ m + (j + 1) = (m + j) + 1
      BY <1>6
    <3>2. h[j] = g[m + j] /\ h[j + 1] = g[(m + j) + 1]
      BY <3>1
    <3> HIDE DEF h
    <3> QED BY <1>5, <3>1, <3>2
  <2>2. h[0] = g[m] /\ h[k] = g[m + k]
    BY <1>6
  <2> HIDE DEF h
  <2>3. Walk(f, h[0])[k] = h[k]
    BY <2>1, WalkGoes
  <2> QED BY <2>2, <2>3
<1> HIDE DEF S, step
<1>8. \A n \in Nat : n <= Stretch => Walk(f, Start(regs))[n] = g[n]
  <2> SUFFICES ASSUME NEW n \in Nat, n <= Stretch PROVE Walk(f, Start(regs))[n] = g[n]
    OBVIOUS
  <2>1. n \in 0 .. Stretch /\ 0 \in Nat /\ 0 + n = n
    BY <1>6
  <2> QED BY <1>4, <1>7, <2>1
<1>9. \A n \in Nat : ~(n <= Stretch) => n - Stretch \in Nat /\ n - Stretch < n /\ Next20(g[n - Stretch]) = g[n]
  <2> SUFFICES ASSUME NEW n \in Nat, ~(n <= Stretch)
               PROVE  n - Stretch \in Nat /\ n - Stretch < n /\ Next20(g[n - Stretch]) = g[n]
    OBVIOUS
  <2>1. n - Stretch \in Nat /\ n - Stretch < n /\ (n - Stretch) + Stretch = n /\ Stretch \in 0 .. Stretch
    BY <1>6
  <2>2. \A t : Next20(t) = Walk(f, t)[Stretch]
    OBVIOUS
  <2>3. Walk(f, g[n - Stretch])[Stretch] = g[n]
    BY <1>7, <2>1
  <2> QED BY <2>1, <2>2, <2>3
<1> HIDE DEF Next20
<1>10. g = Body(g)
  <2> DEFINE body == Body(g)
  <2>1. ASSUME NEW n \in Nat PROVE body[n] = g[n]
    BY <1>8, <1>9
  <2>2. body = [n \in Nat |-> body[n]] /\ g = [n \in Nat |-> g[n]]
    OBVIOUS
  <2> HIDE DEF body
  <2>3. g = body
    BY <2>1, <2>2
  <2> QED BY <2>3 DEF body
<1>11. run = Body(run)
  <2> HIDE DEF Body
  <2> QED BY <1>10
<1> HIDE DEF run
<1>12. \A n \in Nat : run[n] = IF n <= Stretch THEN Walk(f, Start(regs))[n] ELSE Next20(run[n - Stretch])
  <2>1. \A h : \A n \in Nat : Body(h)[n] = IF n <= Stretch THEN Walk(f, Start(regs))[n] ELSE Next20(h[n - Stretch])
    OBVIOUS
  <2> HIDE DEF Body
  <2> QED BY <1>11, <2>1
<1> HIDE DEF Body
<1> DEFINE Bad == {n \in Nat : run[n] # g[n]}
<1>13. Bad = {}
  <2> SUFFICES ASSUME Bad # {} PROVE FALSE
    OBVIOUS
  <2>1. PICK n \in Bad : \A k \in Bad : n <= k
    <3>1. Bad \in SUBSET Nat
      OBVIOUS
    <3> HIDE DEF Bad
    <3> QED BY <3>1, LeastNatural
  <2>2. n \in Nat /\ run[n] # g[n]
    BY <2>1
  <2>3. ~(n <= Stretch)
    BY <1>8, <1>12, <2>2
  <2>4. n - Stretch \in Nat /\ n - Stretch < n /\ Next20(g[n - Stretch]) = g[n]
    BY <1>9, <2>2, <2>3
  <2>5. n - Stretch \notin Bad
    <3> HIDE DEF Bad
    <3> QED BY <1>6, <2>1, <2>2, <2>4
  <2>6. run[n] = Next20(run[n - Stretch])
    BY <1>12, <2>2, <2>3
  <2> QED BY <2>2, <2>4, <2>5, <2>6
<1>14. \A n \in Nat : run[n] = g[n]
  BY <1>13
<1>15. run[0] = Start(regs) /\ \A n \in Nat : run[n] \in S /\ run[n + 1] = ExecuteLine(f, run[n])
  <2>1. \A n \in Nat : n + 1 \in Nat
    OBVIOUS
  <2> HIDE DEF Bad
  <2> QED BY <1>4, <1>5, <1>14, <2>1
<1> QED BY <1>1, <1>15 DEF S

\* Running f leads from s to t in k steps, and until then nothing more is seen.
Goes(f, s, k, t) ==
  \E g : /\ g[0] = s /\ g[k] = t
         /\ \A j \in 0 .. k - 1 : /\ g[j + 1] = ExecuteLine(f, g[j])
                                 /\ g[j].pc # 0 /\ g[j].seen = s.seen

\* A moment leads to itself.
LEMMA GoesNowhere == \A f, s : Goes(f, s, 0, s)
<1> SUFFICES ASSUME NEW f, NEW s PROVE Goes(f, s, 0, s)
  OBVIOUS
<1> DEFINE g == [k \in {0} |-> s]
<1>1. g[0] = s /\ \A j \in 0 .. 0 - 1 : /\ g[j + 1] = ExecuteLine(f, g[j])
                                         /\ g[j].pc # 0 /\ g[j].seen = s.seen
  OBVIOUS
<1> HIDE DEF g
<1> QED BY <1>1 DEF Goes

\* And to the next one.
LEMMA GoesNext == \A f, s : s.pc # 0 => Goes(f, s, 1, ExecuteLine(f, s))
<1> SUFFICES ASSUME NEW f, NEW s, s.pc # 0 PROVE Goes(f, s, 1, ExecuteLine(f, s))
  OBVIOUS
<1> DEFINE t == ExecuteLine(f, s)
           g == [k \in {0, 1} |-> IF k = 0 THEN s ELSE t]
<1>1. g[0] = s /\ g[1] = t
  OBVIOUS
<1>2. \A j \in 0 .. 1 - 1 : /\ g[j + 1] = ExecuteLine(f, g[j])
                            /\ g[j].pc # 0 /\ g[j].seen = s.seen
  <2> HIDE DEF g
  <2>1. \A j \in 0 .. 1 - 1 : j = 0 /\ j + 1 = 1
    OBVIOUS
  <2> QED BY <1>1, <2>1
<1> HIDE DEF g
<1> QED BY <1>1, <1>2 DEF Goes

\* And on from there.
LEMMA GoesOn ==
  ASSUME NEW f, NEW s, NEW t, NEW w, NEW n \in Nat, NEW m \in Nat,
         Goes(f, s, n, t), Goes(f, t, m, w), t.seen = s.seen
  PROVE  Goes(f, s, n + m, w)
<1>1. PICK g : /\ g[0] = s /\ g[n] = t
               /\ \A j \in 0 .. n - 1 : /\ g[j + 1] = ExecuteLine(f, g[j])
                                       /\ g[j].pc # 0 /\ g[j].seen = s.seen
  BY DEF Goes
<1>2. PICK h : /\ h[0] = t /\ h[m] = w
               /\ \A j \in 0 .. m - 1 : /\ h[j + 1] = ExecuteLine(f, h[j])
                                       /\ h[j].pc # 0 /\ h[j].seen = t.seen
  BY DEF Goes
<1> DEFINE j == [k \in 0 .. n + m |-> IF k < n THEN g[k] ELSE h[k - n]]
<1>3. j[n + m] = w
  <2>1. (n + m) - n = m /\ ~(n + m < n) /\ n + m \in 0 .. n + m
    OBVIOUS
  <2> QED BY <1>2, <2>1
<1>4. j[0] = s
  <2>1. 0 \in 0 .. n + m /\ (0 < n \/ (n = 0 /\ 0 - n = 0))
    OBVIOUS
  <2>2. n = 0 => s = t
    BY <1>1
  <2> QED BY <1>1, <1>2, <2>1, <2>2
<1>5. ASSUME NEW k \in 0 .. (n + m) - 1
      PROVE  j[k + 1] = ExecuteLine(f, j[k]) /\ j[k].pc # 0 /\ j[k].seen = s.seen
  <2>1. k \in 0 .. n + m /\ k + 1 \in 0 .. n + m
    OBVIOUS
  <2>2. CASE k + 1 < n
    <3>1. j[k] = g[k] /\ j[k + 1] = g[k + 1] /\ k \in 0 .. n - 1
      BY <2>1, <2>2
    <3> HIDE DEF j
    <3> QED BY <1>1, <3>1
  <2>3. CASE k + 1 = n
    <3>1. j[k] = g[k] /\ j[k + 1] = h[0] /\ k \in 0 .. n - 1
      BY <2>1, <2>3
    <3> HIDE DEF j
    <3> QED BY <1>1, <1>2, <2>3, <3>1
  <2>4. CASE n < k + 1
    <3>1. j[k] = h[k - n] /\ j[k + 1] = h[(k - n) + 1] /\ k - n \in 0 .. m - 1
      BY <2>1, <2>4
    <3> HIDE DEF j
    <3> QED BY <1>2, <3>1
  <2> QED BY <2>2, <2>3, <2>4
<1> HIDE DEF j
<1> QED BY <1>3, <1>4, <1>5 DEF Goes

\* A run goes line by line.
LineByLine(f, run) == \A n \in Nat : run[n + 1] = ExecuteLine(f, run[n])

Trace(Lines, Values, f, run) ==
  LineByLine(f, run) /\ \A n \in Nat : run[n] \in Moments(Lines, Values)

\* The k steps of the run from moment j on lead to t, and until then nothing more is seen.
Passes(run, j, k, t) ==
  /\ run[j + k] = t
  /\ \A i \in j .. j + k - 1 : run[i].pc # 0 /\ run[i].seen = run[j].seen

\* It comes along there.
LEMMA GoesAlong ==
  ASSUME NEW f, NEW run, LineByLine(f, run),
         NEW j \in Nat, NEW k \in Nat, NEW t, Goes(f, run[j], k, t)
  PROVE  Passes(run, j, k, t)
<1>1. PICK g : /\ g[0] = run[j] /\ g[k] = t
               /\ \A i \in 0 .. k - 1 : /\ g[i + 1] = ExecuteLine(f, g[i])
                                       /\ g[i].pc # 0 /\ g[i].seen = run[j].seen
  BY DEF Goes
<1> DEFINE Good == {i \in 0 .. k : run[j + i] = g[i]}
<1>2. 0 \in Good
  BY <1>1
<1>3. ASSUME NEW i \in 0 .. k - 1, i \in Good PROVE i + 1 \in Good
  <2>1. j + i \in Nat /\ j + (i + 1) = (j + i) + 1 /\ i + 1 \in 0 .. k
    OBVIOUS
  <2>2. run[(j + i) + 1] = ExecuteLine(f, run[j + i]) /\ g[i + 1] = ExecuteLine(f, g[i])
    BY <1>1, <2>1 DEF LineByLine
  <2> QED BY <1>3, <2>1, <2>2
<1>4. \A i \in 0 .. k : run[j + i] = g[i]
  <2> HIDE DEF Good
  <2>1. 0 .. k \subseteq Good
    BY <1>2, <1>3, Counting
  <2> QED BY <2>1 DEF Good
<1>5. ASSUME NEW i \in j .. j + k - 1 PROVE run[i].pc # 0 /\ run[i].seen = run[j].seen
  <2>1. i - j \in 0 .. k - 1 /\ i - j \in 0 .. k /\ j + (i - j) = i
    OBVIOUS
  <2>2. run[i] = g[i - j]
    BY <1>4, <2>1
  <2> QED BY <1>1, <2>1, <2>2
<1>6. k \in 0 .. k
  OBVIOUS
<1> QED BY <1>1, <1>4, <1>5, <1>6 DEF Passes

\* Once it has stopped, it stays as it is.
LEMMA StoppedStays ==
  ASSUME NEW f, NEW run, LineByLine(f, run),
         NEW j \in Nat, run[j].pc \notin DOMAIN f
  PROVE  \A n \in Nat : j <= n => run[n] = run[j]
<1> SUFFICES ASSUME NEW n \in Nat, j <= n PROVE run[n] = run[j]
  OBVIOUS
<1> DEFINE Good == {i \in 0 .. n - j : run[j + i] = run[j]}
<1>1. 0 \in Good /\ n - j \in Nat
  OBVIOUS
<1>2. ASSUME NEW i \in 0 .. (n - j) - 1, i \in Good PROVE i + 1 \in Good
  <2>1. j + i \in Nat /\ j + (i + 1) = (j + i) + 1 /\ i + 1 \in 0 .. n - j
    OBVIOUS
  <2>2. run[(j + i) + 1] = ExecuteLine(f, run[j + i])
    BY <2>1 DEF LineByLine
  <2>3. ExecuteLine(f, run[j]) = run[j]
    BY DEF ExecuteLine
  <2> QED BY <1>2, <2>1, <2>2, <2>3
<1>3. 0 .. n - j \subseteq Good
  <2> HIDE DEF Good
  <2> QED BY <1>1, <1>2, Counting
<1>4. n - j \in 0 .. n - j /\ j + (n - j) = n
  BY <1>1
<1>5. n - j \in Good
  BY <1>3, <1>4
<1> QED BY <1>4, <1>5

(***************************************************************************)
(* The lines of a file and the instructions decoded from them.             *)
(***************************************************************************)

IsSequence(f) == Len(f) \in Nat /\ DOMAIN f = 1 .. Len(f) /\ f = [n \in DOMAIN f |-> f[n]]

Unlabelled(f, n) == {m \in 1 .. n : f[m].op # "label"}

\* The position of the first instruction at line n or behind it.
Ahead(f, n) == 1 + Cardinality(Unlabelled(f, n - 1))

\* The instructions up to a line can be counted.
LEMMA UnlabelledFinite ==
  ASSUME NEW f, NEW n \in Int
  PROVE  IsFiniteSet(Unlabelled(f, n)) /\ Cardinality(Unlabelled(f, n)) \in Nat
<1>1. IsFiniteSet(1 .. n)
  BY FS_Interval
<1> QED BY <1>1, FS_Subset, FS_CardinalityType DEF Unlabelled

\* From line to line it goes on by the instructions.
LEMMA AheadGoes ==
  ASSUME NEW f
  PROVE  /\ Ahead(f, 1) = 1
         /\ \A n \in Nat \ {0} : /\ Ahead(f, n) \in Nat \ {0}
                                 /\ f[n].op = "label" => Ahead(f, n + 1) = Ahead(f, n)
                                 /\ f[n].op # "label" => Ahead(f, n + 1) = Ahead(f, n) + 1
<1>1. Ahead(f, 1) = 1
  <2>1. Unlabelled(f, 1 - 1) = {}
    BY DEF Unlabelled
  <2> QED BY <2>1, FS_EmptySet DEF Ahead
<1>2. ASSUME NEW n \in Nat \ {0}
      PROVE  /\ Ahead(f, n) \in Nat \ {0}
             /\ f[n].op = "label" => Ahead(f, n + 1) = Ahead(f, n)
             /\ f[n].op # "label" => Ahead(f, n + 1) = Ahead(f, n) + 1
  <2> DEFINE S == Unlabelled(f, n - 1)
  <2>1. IsFiniteSet(S) /\ Cardinality(S) \in Nat /\ n \notin S /\ (n + 1) - 1 = n
    <3>1. n - 1 \in Int /\ n \notin 1 .. n - 1 /\ (n + 1) - 1 = n
      OBVIOUS
    <3>2. n \notin S
      BY <3>1 DEF Unlabelled
    <3>3. IsFiniteSet(S) /\ Cardinality(S) \in Nat
      BY <3>1, UnlabelledFinite
    <3> QED BY <3>1, <3>2, <3>3
  <2>2. f[n].op = "label" => Unlabelled(f, n) = S
    BY DEF Unlabelled
  <2>3. f[n].op # "label" => Unlabelled(f, n) = S \cup {n}
    BY DEF Unlabelled
  <2>4. Cardinality(S \cup {n}) = Cardinality(S) + 1
    BY <2>1, FS_AddElement
  <2>5. Ahead(f, n) = 1 + Cardinality(S) /\ Ahead(f, n + 1) = 1 + Cardinality(Unlabelled(f, n))
    BY <2>1 DEF Ahead
  <2> HIDE DEF S
  <2> QED BY <2>1, <2>2, <2>3, <2>4, <2>5
<1> QED BY <1>1, <1>2

\* The instructions are numbered as they stand in the file.
LEMMA InstructionsNumbered ==
  ASSUME NEW f, IsSequence(f)
  PROVE  LET ls == InstructionLines(f)
             m == Len(InstructionLines(f))
         IN  /\ m \in Nat /\ DOMAIN ls = 1 .. m
             /\ \A i \in 1 .. m : ls[i] \in DOMAIN f /\ f[ls[i]].op # "label" /\ Ahead(f, ls[i]) = i
             /\ \A i, j \in 1 .. m : i < j => ls[i] < ls[j]
             /\ \A n \in DOMAIN f : f[n].op # "label" => Ahead(f, n) \in 1 .. m /\ ls[Ahead(f, n)] = n
             /\ \A n \in 1 .. Len(f) + 1 : Ahead(f, n) \in 1 .. m + 1
<1> DEFINE b == {n \in DOMAIN f : f[n].op # "label"}
           ls == InstructionLines(f)
           m == Len(ls)
<1>1. Len(f) \in Nat /\ DOMAIN f = 1 .. Len(f)
  BY DEF IsSequence
<1>2. IsFiniteSet(b) /\ b \subseteq Int
  <2>1. IsFiniteSet(1 .. Len(f))
    BY <1>1, FS_Interval
  <2>2. b \subseteq 1 .. Len(f)
    BY <1>1
  <2> QED BY <2>1, <2>2, FS_Subset
<1>3. ls = SortedBoundaries(b)
  BY DEF InstructionLines
<1>4. m = Cardinality(b) /\ m \in Nat
  BY <1>2, <1>3, BoundariesAreSorted
<1>5. /\ ls \in [1 .. m -> b]
      /\ \A n \in b : \E k \in 1 .. m : ls[k] = n
      /\ \A k, l \in 1 .. m : k < l => ls[k] < ls[l]
      /\ \A k \in 1 .. m : Cardinality({j \in b : j < ls[k]}) = k - 1
  <2> DEFINE sorted == SortedBoundaries(b)
             c == Cardinality(b)
  <2> HIDE DEF b
  <2>1. /\ sorted \in [1 .. c -> b]
        /\ \A n \in b : \E k \in 1 .. c : sorted[k] = n
        /\ \A k, l \in 1 .. c : k < l => sorted[k] < sorted[l]
        /\ \A k \in 1 .. c : Cardinality({j \in b : j < sorted[k]}) = k - 1
    BY <1>2, BoundariesAreSorted
  <2> HIDE DEF sorted, c, ls, m
  <2>2. ls = sorted /\ m = c
    BY <1>3, <1>4 DEF sorted, c
  <2> QED BY <2>1, <2>2
<1> HIDE DEF ls, m
<1>6. ASSUME NEW k \in 1 .. m PROVE Ahead(f, ls[k]) = k
  <2>1. ls[k] \in 1 .. Len(f)
    BY <1>1, <1>5
  <2>2. Unlabelled(f, ls[k] - 1) = {j \in b : j < ls[k]}
    BY <1>1, <2>1 DEF Unlabelled
  <2> QED BY <1>4, <1>5, <2>2 DEF Ahead
<1>7. ASSUME NEW n \in DOMAIN f, f[n].op # "label" PROVE Ahead(f, n) \in 1 .. m /\ ls[Ahead(f, n)] = n
  BY <1>5, <1>6, <1>7
<1>8. ASSUME NEW n \in 1 .. Len(f) + 1 PROVE Ahead(f, n) \in 1 .. m + 1
  <2>1. Unlabelled(f, n - 1) \subseteq b
    BY <1>1 DEF Unlabelled
  <2>2. Cardinality(Unlabelled(f, n - 1)) <= m /\ Cardinality(Unlabelled(f, n - 1)) \in Nat
    BY <1>2, <1>4, <2>1, FS_Subset, UnlabelledFinite
  <2> QED BY <1>4, <2>2 DEF Ahead
<1> QED BY <1>4, <1>5, <1>6, <1>7, <1>8 DEF ls, m

\* The effects of a line, taken together.
LEMMA EffectsSummed ==
  ASSUME NEW line, line.guard # "never"
  PROVE  /\ UNION {e.reads : e \in {e \in Effects(line) : e.guard # "never"}} = ToSet(line.args)
         /\ UNION {e.dest : e \in {e \in Effects(line) : e.guard = "always"}} = Writes(line)
<1> DEFINE Dests == {{}} \cup {{r} : r \in ToSet(line.dest)}
           Effect(d) == [guard |-> line.guard, dest |-> d, reads |-> ToSet(line.args)]
<1>1. Effects(line) = {Effect(d) : d \in Dests}
  BY DEF Effects
<1>2. \A d : Effect(d).guard = line.guard /\ Effect(d).dest = d /\ Effect(d).reads = ToSet(line.args)
  OBVIOUS
<1>3. {} \in Dests /\ UNION Dests = ToSet(line.dest)
  OBVIOUS
<1> HIDE DEF Effect, Dests
<1>4. UNION {e.reads : e \in {e \in Effects(line) : e.guard # "never"}} = ToSet(line.args)
  BY <1>1, <1>2, <1>3
<1>5. CASE line.guard = "always"
  <2>1. UNION {e.dest : e \in {e \in Effects(line) : e.guard = "always"}} = UNION Dests
    BY <1>1, <1>2, <1>5
  <2> QED BY <1>3, <1>4, <1>5, <2>1 DEF Writes
<1>6. CASE line.guard # "always"
  <2>1. {e \in Effects(line) : e.guard = "always"} = {}
    BY <1>1, <1>2, <1>6
  <2> QED BY <1>4, <1>6, <2>1 DEF Writes
<1> QED BY <1>5, <1>6

\* What is decoded from the lines of a file.
LEMMA DecodedLines ==
  ASSUME NEW Lines, Language(Lines), NEW f, IsSequence(f), \A n \in DOMAIN f : f[n] \in Lines
  PROVE  LET p == Decoded(f)
             ls == InstructionLines(f)
         IN  /\ Len(p) \in Nat /\ DOMAIN p = Positions(p) /\ Len(p) = Len(ls)
             /\ \A i \in Positions(p) :
                  /\ InstructionReads(p[i]) = ToSet(f[ls[i]].args)
                  /\ InstructionWrites(p[i]) = Writes(f[ls[i]])
                  /\ p[i].branch = BranchOf(f[ls[i]])
                  /\ f[ls[i]].op \in LabelBranches =>
                       p[i].offset = (LabelTarget(f, f[ls[i]].label) - i) * Stride
                  /\ p[i].static = f[ls[i]].static
                  /\ p[i].line = f[ls[i]]
                  /\ p[i].assemblyLine = ls[i]
<1> DEFINE p == Decoded(f)
           ls == InstructionLines(f)
<1>1. Len(ls) \in Nat /\ DOMAIN ls = 1 .. Len(ls)
  BY InstructionsNumbered
<1>2. DOMAIN p = DOMAIN ls
  BY DEF Decoded
<1>3. Len(p) = Len(ls) /\ DOMAIN p = 1 .. Len(ls)
  <2> HIDE DEF p, ls
  <2> QED BY <1>1, <1>2
<1>4. ASSUME NEW i \in DOMAIN p
      PROVE  /\ InstructionReads(p[i]) = ToSet(f[ls[i]].args)
             /\ InstructionWrites(p[i]) = Writes(f[ls[i]])
             /\ p[i].branch = BranchOf(f[ls[i]])
             /\ f[ls[i]].op \in LabelBranches =>
                  p[i].offset = (LabelTarget(f, f[ls[i]].label) - i) * Stride
             /\ p[i].static = f[ls[i]].static
             /\ p[i].line = f[ls[i]]
             /\ p[i].assemblyLine = ls[i]
  <2> DEFINE line == f[ls[i]]
  <2>1. /\ p[i].effects = Effects(line)
        /\ p[i].branch = BranchOf(line)
        /\ line.op \in LabelBranches =>
             p[i].offset = (LabelTarget(f, line.label) - i) * Stride
        /\ p[i].static = line.static
        /\ p[i].line = line
        /\ p[i].assemblyLine = ls[i]
    BY <1>2 DEF Decoded
  <2>2. line.guard # "never"
    <3>1. line \in Lines
      BY <1>2, <1>4, InstructionsNumbered
    <3> QED BY <3>1 DEF Language, IsLine
  <2> HIDE DEF line, p, ls
  <2>3. InstructionReads(p[i]) = ToSet(line.args) /\ InstructionWrites(p[i]) = Writes(line)
    BY <2>1, <2>2, EffectsSummed DEF InstructionReads, InstructionWrites
  <2> QED BY <2>1, <2>3 DEF line
<1> HIDE DEF p, ls
<1> QED BY <1>1, <1>3, <1>4 DEF p, ls, Positions

(***************************************************************************)
(* Where control goes, and which registers are needed there.               *)
(***************************************************************************)

\* A file of the language: no block of it is rewritten yet.
TextFile(Lines, f) ==
  /\ IsSequence(f)
  /\ \A n \in DOMAIN f : f[n] \in Lines
  /\ LabelsResolve(f)

\* A file of the language runs.
LEMMA TextRuns ==
  ASSUME NEW Lines, NEW f, TextFile(Lines, f)
  PROVE  Runnable(Lines, f)
BY DEF TextFile, IsSequence, Runnable, Runs

\* What it decodes to is a program of the analysis.
LEMMA DecodedIsProgram ==
  ASSUME NEW Lines, Language(Lines), NEW f, TextFile(Lines, f)
  PROVE  IsProgram(Decoded(f))
<1> DEFINE p == Decoded(f)
           ls == InstructionLines(f)
<1>1. IsSequence(f) /\ \A n \in DOMAIN f : f[n] \in Lines
  BY DEF TextFile
<1>2. Len(p) \in Nat /\ DOMAIN p = Positions(p) /\ Positions(p) = DOMAIN ls
  BY <1>1, DecodedLines, InstructionsNumbered DEF Positions
<1>3. \A i \in DOMAIN ls : ls[i] \in DOMAIN f
  BY <1>1, InstructionsNumbered
<1>4. ASSUME NEW i \in DOMAIN ls, NEW e \in p[i].effects
      PROVE  e.dest \subseteq Registers /\ e.reads \subseteq Registers
  <2> DEFINE line == f[ls[i]]
  <2>1. p[i].effects = Effects(line)
    BY DEF Decoded
  <2>2. (e.dest = {} \/ \E r \in ToSet(line.dest) : e.dest = {r}) /\ e.reads = ToSet(line.args)
    BY <2>1 DEF Effects
  <2>3. line \in Lines
    BY <1>3 DEF TextFile
  <2>4. line.dest \in Seq(Registers) /\ line.args \in Seq(Registers)
    BY <2>3 DEF Language, IsLine
  <2> HIDE DEF line
  <2>5. ToSet(line.dest) \subseteq Registers /\ ToSet(line.args) \subseteq Registers
    BY <2>4 DEF ToSet
  <2> QED BY <2>2, <2>5
<1> HIDE DEF p, ls
<1> QED BY <1>2, <1>4 DEF IsProgram, p

Needs(p, i) == {r \in Registers : i \in NeededBefore(p, r)}

\* Before an instruction what it reads is needed, and what is needed behind it unless it
\* writes it; behind it what is needed where control may go.
LEMMA NeedsFlow ==
  ASSUME NEW p, IsProgram(p), NEW i \in Positions(p)
  PROVE  /\ InstructionReads(p[i]) \subseteq Needs(p, i)
         /\ NeededAfter(p, i) \ InstructionWrites(p[i]) \subseteq Needs(p, i)
         /\ Needs(p, i + 1) \subseteq NeededAfter(p, i)
         /\ p[i].branch = "register" => NeededAfter(p, i) = Registers
         /\ p[i].branch = "relative" => Needs(p, TargetIndex(p, i)) \subseteq NeededAfter(p, i)
<1>1. InstructionReads(p[i]) \subseteq Registers
  BY DEF IsProgram, InstructionReads
<1>2. \A r : NeededClosed(p, r, NeededBefore(p, r)) /\ NeededBefore(p, r) \subseteq Positions(p)
  BY NeededIsClosed DEF NeededBefore
<1>3. InstructionReads(p[i]) \subseteq Needs(p, i)
  BY <1>1, <1>2 DEF NeededClosed, Needs
<1>4. NeededAfter(p, i) \ InstructionWrites(p[i]) \subseteq Needs(p, i)
  BY <1>2 DEF NeededClosed, Needs, NeededAfter
<1>5. \A j \in Positions(p) :
        j = i + 1 \/ (p[i].branch = "relative" /\ j = TargetIndex(p, i)) =>
          Needs(p, j) \subseteq NeededAfter(p, i)
  BY DEF Needs, NeededAfter, ReachesFrom, InstructionSuccessors
<1>6. \A j : j \notin Positions(p) => Needs(p, j) = {}
  BY <1>2 DEF Needs
<1>7. p[i].branch = "register" => NeededAfter(p, i) = Registers
  BY DEF NeededAfter, ReachesFrom
<1> QED BY <1>3, <1>4, <1>5, <1>6, <1>7

(***************************************************************************)
(* Branch targets, in a program that fits into the address space.          *)
(***************************************************************************)

\* The addresses up to the end of the program are below the width of an offset.
FitsIn(p) == BaseAddress + Len(p) * Stride < 2^OffsetWidth

\* An offset that is masked, added to its address and masked again, gives the target.
LEMMA MaskedSum ==
  ASSUME NEW W \in Int, NEW a \in 0 .. W - 1, NEW b \in 0 .. W - 1
  PROVE  ((a % W) + ((b - a) % W)) % W = b
<1>1. W \in Nat \ {0}
  OBVIOUS
<1>2. a % W = a
  BY <1>1
<1>3. CASE a <= b
  <2>1. (b - a) % W = b - a
    BY <1>1, <1>3
  <2>2. b % W = b
    BY <1>1
  <2> QED BY <1>2, <2>1, <2>2
<1>4. CASE b < a
  <2>1. (b - a) % W = (b - a) + W
    BY <1>1, <1>4
  <2>2. (b + W) % W = b
    BY <1>1
  <2> QED BY <1>2, <2>1, <2>2
<1> QED BY <1>3, <1>4

\* Addresses are apart: multiples of the stride differ as their factors do.
LEMMA Products ==
  ASSUME NEW S \in Nat \ {0}, NEW L \in Nat
  PROVE  /\ \A k \in 0 .. L : k * S \in 0 .. L * S
         /\ \A k, l \in Int : k * S = l * S => k = l
         /\ \A k, l \in Int : (k - l) * S = k * S - l * S
<1>1. \A k \in 0 .. L : k * S \in 0 .. L * S
  <2> SUFFICES ASSUME NEW k \in 0 .. L PROVE k * S \in 0 .. L * S
    OBVIOUS
  <2>1. k * S \in Nat /\ (L - k) * S \in Nat
    OBVIOUS
  <2>2. k * S + (L - k) * S = L * S
    OBVIOUS
  <2> QED BY <2>1, <2>2
<1>2. \A k, l \in Int : (k - l) * S = k * S - l * S
  OBVIOUS
<1>3. \A k, l \in Int : k * S = l * S => k = l
  <2> SUFFICES ASSUME NEW k \in Int, NEW l \in Int, k * S = l * S PROVE k = l
    OBVIOUS
  <2>1. (k - l) * S = 0
    BY <1>2
  <2>2. \A d \in Int : d > 0 => d * S > 0
    OBVIOUS
  <2>3. (l - k) * S = 0
    BY <1>2
  <2>4. ~(k - l > 0) /\ ~(l - k > 0)
    BY <2>1, <2>2, <2>3
  <2> QED BY <2>4
<1> QED BY <1>1, <1>2, <1>3

\* A branch goes to the first instruction behind its label.
LEMMA TargetsAreLabels ==
  ASSUME NEW Lines, Language(Lines), NEW f, TextFile(Lines, f),
         FitsIn(Decoded(f)), ~AnalysisPanics(Decoded(f)),
         NEW n \in DOMAIN f, f[n].op \in LabelBranches
  PROVE  /\ Ahead(f, LabelLine(f, f[n].label)) \in Positions(Decoded(f))
         /\ TargetIndex(Decoded(f), Ahead(f, n)) = Ahead(f, LabelLine(f, f[n].label))
<1> DEFINE p == Decoded(f)
           t == LabelLine(f, f[n].label)
           i == Ahead(f, n)
           T == Ahead(f, t)
           L == Len(p)
           W == 2^OffsetWidth
<1>1. /\ IsSequence(f) /\ LabelsResolve(f) /\ f[n].op # "label"
      /\ \A m \in DOMAIN f : f[m] \in Lines
  BY OperationsAssumption DEF TextFile
<1>2. t \in DOMAIN f /\ f[t].op = "label"
  BY <1>1, LabelsAreFound
<1>3. t \in Nat \ {0} /\ t \in 1 .. Len(f) + 1
  BY <1>1, <1>2 DEF IsSequence
<1>4. L \in Nat /\ L = Len(InstructionLines(f)) /\ Positions(p) = 1 .. L
  BY <1>1, DecodedLines DEF Positions
<1>5. i \in 1 .. L /\ InstructionLines(f)[i] = n /\ T \in 1 .. L + 1
  <2> HIDE DEF p, t
  <2> QED BY <1>1, <1>3, <1>4, InstructionsNumbered
<1>6. LabelTarget(f, f[n].label) = T
  <2>1. Ahead(f, t + 1) = Ahead(f, t)
    BY <1>2, <1>3, AheadGoes
  <2>2. (t + 1) - 1 = t
    BY <1>3
  <2>3. Ahead(f, t + 1) = 1 + Cardinality(Unlabelled(f, t))
    BY <2>2 DEF Ahead
  <2>4. LabelTarget(f, f[n].label) = 1 + Cardinality(Unlabelled(f, t))
    BY DEF LabelTarget, Unlabelled
  <2> QED BY <2>1, <2>3, <2>4
<1>7. p[i].offset = (T - i) * Stride /\ p[i].branch = "relative"
  <2>1. p[i].offset = (T - i) * Stride /\ p[i].branch = BranchOf(f[n])
    BY <1>1, <1>4, <1>5, <1>6, DecodedLines
  <2>2. BranchOf(f[n]) = "relative"
    BY OperationsAssumption DEF BranchOf
  <2> QED BY <2>1, <2>2
<1> HIDE DEF i, T, L, p, t
<1>8. /\ W \in Int /\ BaseAddress + L * Stride < W /\ BaseAddress \in Nat /\ Stride \in Nat \ {0}
  BY AddressAssumption DEF FitsIn, p, L
<1> HIDE DEF W
<1>9. \A j \in 1 .. L + 1 : MemAddr(j) \in 0 .. W - 1
  <2> SUFFICES ASSUME NEW j \in 1 .. L + 1 PROVE MemAddr(j) \in 0 .. W - 1
    OBVIOUS
  <2>1. j - 1 \in 0 .. L
    BY <1>4
  <2>2. (j - 1) * Stride \in 0 .. L * Stride /\ L * Stride \in Int
    BY <1>4, <1>8, <2>1, Products
  <2>3. MemAddr(j) = BaseAddress + (j - 1) * Stride
    BY DEF MemAddr
  <2> QED BY <1>8, <2>2, <2>3
<1>10. \A j, k \in 1 .. L + 1 : /\ MemAddr(j) = MemAddr(k) => j = k
                               /\ (j - k) * Stride = MemAddr(j) - MemAddr(k)
  <2> SUFFICES ASSUME NEW j \in 1 .. L + 1, NEW k \in 1 .. L + 1
               PROVE  /\ MemAddr(j) = MemAddr(k) => j = k
                      /\ (j - k) * Stride = MemAddr(j) - MemAddr(k)
    OBVIOUS
  <2>1. j - 1 \in Int /\ k - 1 \in Int /\ (j - 1) - (k - 1) = j - k
    BY <1>4
  <2>2. ((j - 1) - (k - 1)) * Stride = (j - 1) * Stride - (k - 1) * Stride
    BY <1>8, <2>1, Products
  <2>3. (j - 1) * Stride = (k - 1) * Stride => j - 1 = k - 1
    BY <1>8, <2>1, Products
  <2>4. MemAddr(j) = BaseAddress + (j - 1) * Stride /\ MemAddr(k) = BaseAddress + (k - 1) * Stride
    BY DEF MemAddr
  <2>5. (j - 1) * Stride \in Int /\ (k - 1) * Stride \in Int
    BY <1>8, <2>1
  <2> QED BY <1>8, <2>1, <2>2, <2>3, <2>4, <2>5
<1>11. i \in 1 .. L + 1
  BY <1>4, <1>5
<1>12. TargetAddress(p, i) = MemAddr(T)
  <2> DEFINE a == MemAddr(i)
             b == MemAddr(T)
  <2>1. a \in 0 .. W - 1 /\ b \in 0 .. W - 1
    BY <1>5, <1>9, <1>11
  <2>2. p[i].offset = b - a
    BY <1>5, <1>7, <1>10, <1>11
  <2>3. TargetAddress(p, i) = ((a % W) + ((b - a) % W)) % W
    BY <2>2 DEF TargetAddress, Masked, W
  <2> HIDE DEF a, b
  <2>4. TargetAddress(p, i) = b
    BY <1>8, <2>1, <2>3, MaskedSum
  <2> QED BY <2>4 DEF b
<1>13. AtTarget(p, i) = {T} \cap Positions(p)
  <2>1. \A j \in Positions(p) : MemAddr(j) = MemAddr(T) <=> j = T
    BY <1>4, <1>5, <1>10
  <2> QED BY <1>12, <2>1 DEF AtTarget
<1>14. T \in Positions(p)
  <2>1. AtTarget(p, i) # {}
    BY <1>4, <1>5, <1>7 DEF AnalysisPanics, Resolves, p
  <2> QED BY <1>13, <2>1
<1>15. TargetIndex(p, i) = T
  <2>1. AtTarget(p, i) = {T} /\ T \in Int
    BY <1>4, <1>13, <1>14
  <2> QED BY <2>1 DEF TargetIndex
<1> QED BY <1>14, <1>15 DEF p, i, T, t

(***************************************************************************)
(* Two files that show the same.                                           *)
(***************************************************************************)

\* What the positions of at cover.
LEMMA Covers ==
  ASSUME NEW N \in Nat, NEW at \in [1 .. N + 1 -> Nat \ {0}], at[1] = 1,
         NEW m \in 1 .. at[N + 1] - 1
  PROVE  \E n \in 1 .. N : at[n] <= m /\ m < at[n + 1]
<1> DEFINE Good == {k \in 0 .. N : m < at[k + 1] => \E n \in 1 .. N : at[n] <= m /\ m < at[n + 1]}
<1>1. 0 \in Good
  OBVIOUS
<1>2. ASSUME NEW k \in 0 .. N - 1, k \in Good PROVE k + 1 \in Good
  <2>1. k + 1 \in 1 .. N /\ k + 1 \in 0 .. N /\ at[k + 1] \in Nat
    OBVIOUS
  <2> SUFFICES ASSUME m < at[(k + 1) + 1] PROVE \E n \in 1 .. N : at[n] <= m /\ m < at[n + 1]
    BY <2>1
  <2>2. CASE m < at[k + 1]
    BY <1>2, <2>2
  <2>3. CASE at[k + 1] <= m
    BY <2>1, <2>3
  <2> QED BY <2>1, <2>2, <2>3
<1>3. 0 .. N \subseteq Good
  <2> HIDE DEF Good
  <2> QED BY <1>1, <1>2, Counting
<1>4. N \in Good /\ m < at[N + 1]
  BY <1>3
<1> QED BY <1>4

\* They rise.
LEMMA Rises ==
  ASSUME NEW N \in Nat, NEW at \in [1 .. N + 1 -> Nat \ {0}], \A n \in 1 .. N : at[n] <= at[n + 1],
         NEW m \in 1 .. N + 1, NEW n \in m .. N + 1
  PROVE  at[m] <= at[n]
<1> DEFINE Good == {k \in 0 .. n - m : at[m] <= at[m + k]}
<1>1. n - m \in Nat /\ 0 \in Good
  OBVIOUS
<1>2. ASSUME NEW k \in 0 .. (n - m) - 1, k \in Good PROVE k + 1 \in Good
  <2>1. m + k \in 1 .. N /\ k + 1 \in 0 .. n - m /\ m + (k + 1) = (m + k) + 1
    OBVIOUS
  <2>2. at[m] \in Nat /\ at[m + k] \in Nat /\ at[(m + k) + 1] \in Nat
    BY <2>1
  <2>3. at[m + k] <= at[(m + k) + 1] /\ at[m] <= at[m + k]
    BY <1>2, <2>1
  <2> QED BY <2>1, <2>2, <2>3
<1>3. n - m \in Good
  <2> HIDE DEF Good
  <2>1. 0 .. n - m \subseteq Good
    BY <1>1, <1>2, Counting
  <2> QED BY <1>1, <2>1
<1>4. at[m] <= at[m + (n - m)] /\ m + (n - m) = n
  BY <1>3
<1> QED BY <1>4

\* Line n of P stands in F at at[n].
Kept(P, F, at, n) == F[at[n]] = P[n] /\ at[n + 1] = at[n] + 1

\* The places of the lines of P in F: every label is kept.
Laid(P, F, at) ==
  /\ IsSequence(F)
  /\ at \in [1 .. Len(P) + 1 -> Nat \ {0}]
  /\ at[1] = 1 /\ at[Len(P) + 1] = Len(F) + 1
  /\ \A n \in DOMAIN P : /\ at[n] <= at[n + 1]
                         /\ P[n].op = "label" => Kept(P, F, at, n)

\* The lines that stand for those of P are lines of F, in order, and all of them are.
LEMMA LaidInside ==
  ASSUME NEW P, IsSequence(P), NEW F, NEW at, Laid(P, F, at)
  PROVE  /\ \A n \in 1 .. Len(P) + 1 : at[n] \in 1 .. Len(F) + 1
         /\ \A m, n \in 1 .. Len(P) + 1 : m <= n => at[m] <= at[n]
         /\ \A m \in DOMAIN F : \E n \in DOMAIN P : m \in at[n] .. at[n + 1] - 1
<1> DEFINE N == Len(P)
<1>1. N \in Nat /\ DOMAIN P = 1 .. N /\ Len(F) \in Nat /\ DOMAIN F = 1 .. Len(F)
  BY DEF IsSequence, Laid
<1>2. /\ at \in [1 .. N + 1 -> Nat \ {0}] /\ at[1] = 1 /\ at[N + 1] = Len(F) + 1
      /\ \A n \in 1 .. N : at[n] <= at[n + 1]
  BY <1>1 DEF Laid
<1> HIDE DEF N
<1>3. \A m, n \in 1 .. N + 1 : m <= n => at[m] <= at[n]
  <2> SUFFICES ASSUME NEW m \in 1 .. N + 1, NEW n \in 1 .. N + 1, m <= n PROVE at[m] <= at[n]
    OBVIOUS
  <2>1. n \in m .. N + 1
    BY <1>1
  <2> QED BY <1>1, <1>2, <2>1, Rises
<1>4. \A n \in 1 .. N + 1 : at[n] \in 1 .. Len(F) + 1
  <2> SUFFICES ASSUME NEW n \in 1 .. N + 1 PROVE at[n] \in 1 .. Len(F) + 1
    OBVIOUS
  <2>1. n <= N + 1 /\ N + 1 \in 1 .. N + 1
    BY <1>1
  <2>2. at[n] <= at[N + 1] /\ at[n] \in Nat \ {0}
    BY <1>2, <1>3, <2>1
  <2> QED BY <1>1, <1>2, <2>2
<1>5. ASSUME NEW m \in DOMAIN F PROVE \E n \in DOMAIN P : m \in at[n] .. at[n + 1] - 1
  <2>1. m \in 1 .. at[N + 1] - 1
    BY <1>1, <1>2
  <2>2. PICK n \in 1 .. N : at[n] <= m /\ m < at[n + 1]
    BY <1>1, <1>2, <2>1, Covers
  <2>3. at[n] \in Nat /\ at[n + 1] \in Nat /\ m \in Nat
    BY <1>1, <1>2
  <2>4. n \in DOMAIN P
    BY <1>1
  <2>5. m \in at[n] .. at[n + 1] - 1
    BY ONLY <2>2, <2>3
  <2> QED BY <2>4, <2>5
<1> QED BY <1>3, <1>4, <1>5 DEF N

\* A branch of P goes, in F, to the place of its label.
LEMMA LaidLabels ==
  ASSUME NEW P, IsSequence(P), LabelsResolve(P), NEW F, NEW at, Laid(P, F, at), LabelsResolve(F),
         NEW n \in DOMAIN P, P[n].op \in LabelBranches
  PROVE  LabelLine(F, P[n].label) = at[LabelLine(P, P[n].label)]
<1> DEFINE l == LabelLine(P, P[n].label)
           N == Len(P)
<1>1. N \in Nat /\ DOMAIN P = 1 .. N /\ Len(F) \in Nat /\ DOMAIN F = 1 .. Len(F)
  BY DEF IsSequence, Laid
<1>2. l \in DOMAIN P /\ P[l].op = "label" /\ P[l].label = P[n].label
  BY LabelsAreFound
<1> HIDE DEF l, N
<1>3. Kept(P, F, at, l)
  BY <1>2 DEF Laid
<1>4. at[l] \in DOMAIN F
  <2>1. l \in 1 .. N + 1 /\ l + 1 \in 1 .. N + 1
    BY <1>1, <1>2
  <2>2. at[l] \in 1 .. Len(F) + 1 /\ at[l + 1] \in 1 .. Len(F) + 1
    BY <2>1, LaidInside DEF N
  <2> QED BY SMTT(40), <1>1, <1>3, <2>2 DEF Kept
<1>5. F[at[l]].op = "label" /\ F[at[l]].label = P[n].label
  BY <1>2, <1>3 DEF Kept
<1>6. LabelLine(F, F[at[l]].label) = at[l]
  BY <1>4, <1>5, LabelsAreFound
<1> QED BY <1>5, <1>6 DEF l

\* Both have left through a register and show the same, or both are at the same line and agree
\* on what is needed there.
Alike(P, at, D, s, t) ==
  /\ s.seen = t.seen
  /\ \/ s.pc = 0 /\ t.pc = 0 /\ s.regs = t.regs
     \/ /\ s.pc \in D /\ t.pc = at[s.pc]
        /\ Agree(s.regs, t.regs, Needs(Decoded(P), Ahead(P, s.pc)))

\* From line n, where they are alike, both go on to where they are alike again.
Follow(Lines, Values, P, F, at, D, n) ==
  \A s, t \in Moments(Lines, Values) :
    s.pc = n /\ Alike(P, at, D, s, t) =>
      \E s2, t2 \in Moments(Lines, Values), k \in Nat \ {0}, l \in Nat :
        /\ Goes(P, s, k, s2) /\ Goes(F, t, l, t2)
        /\ Alike(P, at, D, s2, t2)
        /\ l = 0 => n < s2.pc

\* The lines of D are where the two meet.
Meets(Lines, Values, P, F, at, D) ==
  /\ D \subseteq 1 .. Len(P) + 1
  /\ 1 \in D
  /\ \A n \in D \cap DOMAIN P : Follow(Lines, Values, P, F, at, D, n)

\* Runs are alike at a line whose needed registers agree.
LEMMA AlikeMade ==
  ASSUME NEW P, NEW at, NEW D, NEW pc \in D, NEW seen, NEW u, NEW v,
         Agree(u, v, Needs(Decoded(P), Ahead(P, pc)))
  PROVE  Alike(P, at, D, At(pc, seen, u), At(at[pc], seen, v))
<1> DEFINE s == At(pc, seen, u)
           t == At(at[pc], seen, v)
<1>1. /\ s.pc = pc /\ s.seen = seen /\ s.regs = u
      /\ t.pc = at[pc] /\ t.seen = seen /\ t.regs = v
  BY PartsOfMoment
<1> HIDE DEF s, t
<1>2. Alike(P, at, D, s, t)
  BY <1>1 DEF Alike
<1> QED BY <1>2 DEF s, t

\* And when both have left with the same.
LEMMA AlikeLeft ==
  ASSUME NEW P, NEW at, NEW D, NEW seen, NEW u
  PROVE  Alike(P, at, D, At(0, seen, u), At(0, seen, u))
<1> DEFINE s == At(0, seen, u)
<1>1. s.pc = 0
  BY PartsOfMoment
<1> HIDE DEF s
<1>2. Alike(P, at, D, s, s)
  BY <1>1 DEF Alike
<1> QED BY <1>2 DEF s

\* A line of the program and its instruction.
LEMMA InstructionOfLine ==
  ASSUME NEW Lines, Language(Lines), NEW P, TextFile(Lines, P),
         NEW n \in DOMAIN P, P[n].op # "label"
  PROVE  LET p == Decoded(P)
             i == Ahead(P, n)
         IN  /\ i \in Positions(p) /\ IsProgram(p)
             /\ InstructionReads(p[i]) = ToSet(P[n].args) /\ InstructionWrites(p[i]) = Writes(P[n])
             /\ p[i].branch = BranchOf(P[n])
             /\ Ahead(P, n + 1) = i + 1
<1> DEFINE p == Decoded(P)
           i == Ahead(P, n)
           ls == InstructionLines(P)
<1>1. IsSequence(P) /\ DOMAIN P = 1 .. Len(P) /\ Len(P) \in Nat /\ \A m \in DOMAIN P : P[m] \in Lines
  BY DEF TextFile, IsSequence
<1>2. i \in 1 .. Len(ls) /\ ls[i] = n
  BY SMTT(40), <1>1, InstructionsNumbered
<1>3. Len(p) = Len(ls)
  BY <1>1, DecodedLines
<1>4. i \in Positions(p)
  BY <1>2, <1>3 DEF Positions
<1>5. Ahead(P, n + 1) = i + 1
  <2>1. n \in Nat \ {0}
    BY <1>1
  <2> QED BY <2>1, AheadGoes
<1>6. IsProgram(p)
  BY DecodedIsProgram
<1> HIDE DEF p, i, ls
<1>7. /\ InstructionReads(p[i]) = ToSet(P[ls[i]].args) /\ InstructionWrites(p[i]) = Writes(P[ls[i]])
      /\ p[i].branch = BranchOf(P[ls[i]])
  BY <1>1, <1>4, DecodedLines DEF p, ls
<1> QED BY <1>2, <1>4, <1>5, <1>6, <1>7 DEF p, i

\* From registers that agree on what a line needs it leaves to the same place, with registers
\* that agree on what is needed there.
LEMMA LineAgrees ==
  ASSUME NEW Lines, Language(Lines),
         NEW P, TextFile(Lines, P), FitsIn(Decoded(P)), ~AnalysisPanics(Decoded(P)),
         NEW n \in DOMAIN P, P[n].op # "label", NEW u, NEW v,
         Agree(u, v, Needs(Decoded(P), Ahead(P, n)))
  PROVE  LET after == NeededAfter(Decoded(P), Ahead(P, n))
             line == P[n]
         IN  /\ Exit(line, u) = Exit(line, v)
             /\ Agree(Assign(u, line), Assign(v, line), after)
             /\ Needs(Decoded(P), Ahead(P, n + 1)) \subseteq after
             /\ Exit(line, u) = "out" => after = Registers
             /\ Exit(line, u) = "jump" =>
                  Needs(Decoded(P), Ahead(P, LabelLine(P, line.label))) \subseteq after
<1> DEFINE p == Decoded(P)
           i == Ahead(P, n)
           line == P[n]
           after == NeededAfter(p, i)
<1>1. /\ i \in Positions(p) /\ IsProgram(p)
      /\ InstructionReads(p[i]) = ToSet(line.args) /\ InstructionWrites(p[i]) = Writes(line)
      /\ p[i].branch = BranchOf(line)
      /\ Ahead(P, n + 1) = i + 1
  BY InstructionOfLine
<1>2. line \in Lines
  BY DEF TextFile
<1> HIDE DEF p, i, line
<1>3. /\ ToSet(line.args) \subseteq Needs(p, i)
      /\ after \ Writes(line) \subseteq Needs(p, i)
      /\ Needs(p, i + 1) \subseteq after
      /\ p[i].branch = "register" => after = Registers
      /\ p[i].branch = "relative" => Needs(p, TargetIndex(p, i)) \subseteq after
  BY <1>1, NeedsFlow
<1>4. Agree(u, v, Needs(p, i))
  BY DEF p, i
<1>5. Agree(u, v, ToSet(line.args))
  BY <1>3, <1>4 DEF Agree
<1>6. /\ Happens(u, line) <=> Happens(v, line)
      /\ \A r \in Registers : r \in Writes(line) \/ u[r] = v[r] =>
           Assign(u, line)[r] = Assign(v, line)[r]
  BY <1>2, <1>5, AssignAgrees
<1>7. Exit(line, u) = Exit(line, v)
  BY <1>6 DEF Exit
<1>8. after \subseteq Registers
  BY DEF NeededAfter
<1>9. Agree(Assign(u, line), Assign(v, line), after)
  <2> SUFFICES ASSUME NEW r \in after PROVE Assign(u, line)[r] = Assign(v, line)[r]
    BY DEF Agree
  <2>1. r \in Registers /\ (r \in Writes(line) \/ u[r] = v[r])
    BY <1>3, <1>4, <1>8 DEF Agree
  <2> QED BY <1>6, <2>1
<1> HIDE DEF after
<1>10. Exit(line, u) = "out" => after = Registers
  <2> SUFFICES ASSUME Exit(line, u) = "out" PROVE after = Registers
    OBVIOUS
  <2>1. line.op \in RegisterBranches
    BY DEF Exit
  <2> QED BY <1>1, <1>3, <2>1, OperationsAssumption DEF BranchOf
<1>11. Exit(line, u) = "jump" => Needs(p, Ahead(P, LabelLine(P, line.label))) \subseteq after
  <2> SUFFICES ASSUME Exit(line, u) = "jump"
               PROVE  Needs(p, Ahead(P, LabelLine(P, line.label))) \subseteq after
    OBVIOUS
  <2>1. line.op \in LabelBranches
    BY DEF Exit
  <2>2. line.op \notin RegisterBranches
    BY <2>1, OperationsAssumption
  <2>3. p[i].branch = "relative"
    BY <1>1, <2>1, <2>2 DEF BranchOf
  <2>4. TargetIndex(p, i) = Ahead(P, LabelLine(P, line.label))
    BY <2>1, TargetsAreLabels DEF p, i, line
  <2> QED BY <1>3, <2>3, <2>4
<1> QED BY <1>1, <1>3, <1>7, <1>9, <1>10, <1>11 DEF p, i, line, after

\* The moment that a line leaves to, with its label at jump, the next line at on and these
\* registers after it.
Leaving(line, regs, seen, jump, on, after) ==
  CASE Exit(line, regs) = "out" -> At(0, seen, after)
    [] Exit(line, regs) = "jump" -> At(jump, Jumped(seen, line.label), after)
    [] Exit(line, regs) = "on" -> At(on, seen, after)

\* So a moment with such registers, at the place in F where the line leaves to, is like the
\* next moment of P.
LEMMA AlikeAfter ==
  ASSUME NEW Lines, NEW Values, Language(Lines), Computes(Lines, Values),
         NEW P, TextFile(Lines, P), FitsIn(Decoded(P)), ~AnalysisPanics(Decoded(P)),
         NEW at, NEW D, NEW n \in DOMAIN P, P[n].op # "label", n + 1 \in D,
         P[n].op \in LabelBranches => LabelLine(P, P[n].label) \in D,
         NEW s, s.pc = n, s.regs \in States(Values), NEW v,
         Agree(s.regs, v, Needs(Decoded(P), Ahead(P, n))),
         NEW w \in States(Values), Agree(Assign(v, P[n]), w, NeededAfter(Decoded(P), Ahead(P, n))),
         NEW t, t = Leaving(P[n], v, s.seen, at[LabelLine(P, P[n].label)], at[n + 1], w)
  PROVE  Alike(P, at, D, ExecuteLine(P, s), t)
<1> DEFINE line == P[n]
           u == s.regs
           after == NeededAfter(Decoded(P), Ahead(P, n))
           s2 == ExecuteLine(P, s)
<1>0. P[n] \in Lines
  BY DEF TextFile
<1>1. /\ Exit(line, u) = Exit(line, v)
      /\ Agree(Assign(u, line), Assign(v, line), after)
      /\ Needs(Decoded(P), Ahead(P, n + 1)) \subseteq after
      /\ Exit(line, u) = "out" => after = Registers
      /\ Exit(line, u) = "jump" =>
           Needs(Decoded(P), Ahead(P, LabelLine(P, line.label))) \subseteq after
  BY LineAgrees
<1>2. line.op \notin {"label", "best"} /\ Assign(u, line) \in States(Values)
  BY <1>0, AssignTyped DEF Language, IsLine
<1>3. Agree(Assign(u, line), w, after)
  BY <1>1 DEF Agree
<1>4. /\ Exit(line, u) = "out" => s2 = At(0, s.seen, Assign(u, line))
      /\ Exit(line, u) = "jump" =>
           /\ line.op \in LabelBranches
           /\ s2 = At(LabelLine(P, line.label), Jumped(s.seen, line.label), Assign(u, line))
      /\ Exit(line, u) = "on" => s2 = At(n + 1, s.seen, Assign(u, line))
      /\ Exit(line, u) \in {"out", "jump", "on"}
  BY <1>2, InstructionEffect
<1> HIDE DEF line, after, s2, u
<1>5. CASE Exit(line, u) = "out"
  <2>1. \A r \in Registers : Assign(u, line)[r] = w[r]
    BY <1>1, <1>3, <1>5 DEF Agree
  <2>2. Assign(u, line) = w
    BY <1>2, <2>1 DEF States
  <2>3. t = At(0, s.seen, w)
    BY <1>1, <1>5 DEF line, Leaving
  <2>4. s2 = t
    BY <1>4, <1>5, <2>2, <2>3
  <2> QED BY <2>3, <2>4, AlikeLeft DEF s2
<1>6. CASE Exit(line, u) = "jump"
  <2> DEFINE l == LabelLine(P, line.label)
             seen == Jumped(s.seen, line.label)
  <2>1. t = At(at[l], seen, w)
    BY <1>1, <1>6 DEF line, Leaving
  <2>2. s2 = At(l, seen, Assign(u, line)) /\ l \in D
    BY <1>4, <1>6 DEF line
  <2>3. Agree(Assign(u, line), w, Needs(Decoded(P), Ahead(P, l)))
    BY <1>1, <1>3, <1>6 DEF Agree
  <2> HIDE DEF l, seen
  <2> QED BY <2>1, <2>2, <2>3, AlikeMade DEF s2
<1>7. CASE Exit(line, u) = "on"
  <2>1. t = At(at[n + 1], s.seen, w)
    BY <1>1, <1>7 DEF line, Leaving
  <2>2. s2 = At(n + 1, s.seen, Assign(u, line))
    BY <1>4, <1>7
  <2>3. Agree(Assign(u, line), w, Needs(Decoded(P), Ahead(P, n + 1)))
    BY <1>1, <1>3 DEF Agree
  <2> QED BY <2>1, <2>2, <2>3, AlikeMade DEF s2
<1> QED BY <1>4, <1>5, <1>6, <1>7 DEF s2

\* A line that is kept does the same in both.
LEMMA KeptFollows ==
  ASSUME NEW Lines, NEW Values, Language(Lines), Computes(Lines, Values),
         NEW P, TextFile(Lines, P), FitsIn(Decoded(P)), ~AnalysisPanics(Decoded(P)),
         NEW F, Runnable(Lines, F), NEW at, Laid(P, F, at),
         NEW D, NEW n \in D \cap DOMAIN P, n + 1 \in D, Kept(P, F, at, n),
         P[n].op \in LabelBranches => LabelLine(P, P[n].label) \in D
  PROVE  Follow(Lines, Values, P, F, at, D, n)
<1> DEFINE line == P[n]
<1>1. IsSequence(P) /\ LabelsResolve(P) /\ line \in Lines /\ DOMAIN P = 1 .. Len(P) /\ Len(P) \in Nat
  BY DEF TextFile, IsSequence
<1>2. /\ IsSequence(F) /\ at \in [1 .. Len(P) + 1 -> Nat \ {0}] /\ LabelsResolve(F)
  BY DEF Laid, Runnable
<1>3. at[n] \in DOMAIN F /\ F[at[n]] = line /\ at[n + 1] = at[n] + 1
  <2>1. n \in 1 .. Len(P) + 1 /\ n + 1 \in 1 .. Len(P) + 1
    BY <1>1
  <2>2. at[n] \in 1 .. Len(F) + 1 /\ at[n + 1] \in 1 .. Len(F) + 1
    BY <1>1, <2>1, LaidInside
  <2>3. Len(F) \in Nat /\ DOMAIN F = 1 .. Len(F)
    BY <1>2 DEF IsSequence
  <2> QED BY <2>2, <2>3 DEF Kept
<1>4. line.op # "best"
  BY <1>1 DEF Language, IsLine
<1> SUFFICES ASSUME NEW s \in Moments(Lines, Values), NEW t \in Moments(Lines, Values),
                    s.pc = n, Alike(P, at, D, s, t)
             PROVE  Alike(P, at, D, ExecuteLine(P, s), ExecuteLine(F, t))
  <2> SUFFICES ASSUME NEW s \in Moments(Lines, Values), NEW t \in Moments(Lines, Values),
                      s.pc = n, Alike(P, at, D, s, t)
               PROVE  \E s2, t2 \in Moments(Lines, Values), k \in Nat \ {0}, l \in Nat :
                        /\ Goes(P, s, k, s2) /\ Goes(F, t, l, t2)
                        /\ Alike(P, at, D, s2, t2)
                        /\ l = 0 => n < s2.pc
    BY DEF Follow
  <2>1. Runnable(Lines, P)
    BY TextRuns
  <2>2. ExecuteLine(P, s) \in Moments(Lines, Values) /\ ExecuteLine(F, t) \in Moments(Lines, Values)
    BY <2>1, ExecuteTyped
  <2>3. s.pc # 0 /\ t.pc # 0
    <3>1. n # 0 /\ n \in 1 .. Len(P) + 1 /\ at[n] # 0
      BY <1>1, <1>2
    <3> QED BY <3>1 DEF Alike
  <2>4. Goes(P, s, 1, ExecuteLine(P, s)) /\ Goes(F, t, 1, ExecuteLine(F, t))
    BY <2>3, GoesNext
  <2>5. 1 \in Nat \ {0} /\ 1 \in Nat /\ 1 # 0
    OBVIOUS
  <2> QED BY <2>2, <2>4, <2>5
<1>5. n # 0
  BY <1>1
<1>6. Agree(s.regs, t.regs, Needs(Decoded(P), Ahead(P, n))) /\ s.seen = t.seen /\ t.pc = at[n]
  BY <1>5 DEF Alike
<1>7. s.regs \in States(Values) /\ t.regs \in States(Values)
  BY MomentParts
<1>8. n \in Nat \ {0}
  BY <1>1
<1>9. CASE line.op = "label"
  <2>1. Ahead(P, n + 1) = Ahead(P, n)
    BY <1>8, <1>9, AheadGoes
  <2>2. ExecuteLine(P, s) = At(n + 1, s.seen, s.regs)
    BY <1>9, LabelEffect
  <2>3. ExecuteLine(F, t) = At(at[n + 1], s.seen, t.regs)
    BY <1>3, <1>6, <1>9, LabelEffect
  <2>4. Agree(s.regs, t.regs, Needs(Decoded(P), Ahead(P, n + 1)))
    BY <1>6, <2>1
  <2> QED BY <2>2, <2>3, <2>4, AlikeMade
<1>10. CASE line.op # "label"
  <2> DEFINE v == t.regs
             w == Assign(v, line)
             t2 == ExecuteLine(F, t)
  <2>1. w \in States(Values)
    BY <1>1, <1>7, AssignTyped
  <2>2. /\ Exit(line, v) = "out" => t2 = At(0, t.seen, w)
        /\ Exit(line, v) = "jump" =>
             /\ line.op \in LabelBranches
             /\ t2 = At(LabelLine(F, line.label), Jumped(t.seen, line.label), w)
        /\ Exit(line, v) = "on" => t2 = At(t.pc + 1, t.seen, w)
        /\ Exit(line, v) \in {"out", "jump", "on"}
    <3>1. t.pc \in DOMAIN F /\ line = F[t.pc] /\ line.op \notin {"label", "best"}
      BY <1>3, <1>4, <1>6, <1>10
    <3> HIDE DEF line
    <3> QED BY <3>1, InstructionEffect
  <2> HIDE DEF t2, w
  <2>3. line.op \in LabelBranches => LabelLine(F, line.label) = at[LabelLine(P, line.label)]
    BY <1>1, <1>2, LaidLabels
  <2>4. t2 = Leaving(line, v, s.seen, at[LabelLine(P, line.label)], at[n + 1], w)
    <3> HIDE DEF line, v
    <3>1. t.seen = s.seen /\ t.pc + 1 = at[n + 1]
      BY <1>3, <1>6
    <3> QED BY <2>2, <2>3, <3>1 DEF Leaving
  <2>5. Agree(Assign(v, line), w, NeededAfter(Decoded(P), Ahead(P, n)))
    BY DEF Agree, w
  <2> QED BY <1>6, <1>7, <1>10, <2>1, <2>4, <2>5, AlikeAfter DEF t2
<1> QED BY <1>9, <1>10

\* What is seen of moments that are alike is the same.
LEMMA AlikeSeen ==
  ASSUME NEW Lines, NEW Values, NEW P, IsSequence(P), NEW F, NEW at, Laid(P, F, at),
         NEW D, Meets(Lines, Values, P, F, at, D),
         NEW s, NEW t, Alike(P, at, D, s, t)
  PROVE  Sight(s) = Sight(t)
<1>1. \A n \in D : n # 0 /\ at[n] # 0
  <2>1. at \in [1 .. Len(P) + 1 -> Nat \ {0}] /\ Len(P) \in Nat
    BY DEF Laid, IsSequence
  <2> QED BY <2>1 DEF Meets
<1>2. CASE s.pc = 0 /\ t.pc = 0 /\ s.regs = t.regs
  BY <1>2 DEF Alike, Sight
<1>3. CASE s.pc \in D /\ t.pc = at[s.pc]
  <2>1. s.pc # 0 /\ t.pc # 0
    BY <1>1, <1>3
  <2> QED BY <2>1 DEF Alike, Sight
<1> QED BY <1>2, <1>3 DEF Alike

\* When one of them has stopped, the other has.
LEMMA AlikeStopped ==
  ASSUME NEW Lines, NEW Values, NEW P, IsSequence(P), NEW F, NEW at, Laid(P, F, at),
         NEW D, Meets(Lines, Values, P, F, at, D),
         NEW s, NEW t, Alike(P, at, D, s, t), s.pc \notin DOMAIN P
  PROVE  t.pc \notin DOMAIN F
<1>1. /\ Len(F) \in Nat /\ DOMAIN F = 1 .. Len(F) /\ at[Len(P) + 1] = Len(F) + 1
      /\ Len(P) \in Nat /\ DOMAIN P = 1 .. Len(P)
  BY DEF Laid, IsSequence
<1>2. CASE t.pc = 0
  BY <1>1, <1>2
<1>3. CASE s.pc \in D /\ t.pc = at[s.pc]
  <2>1. \A n \in D : n \in DOMAIN P \/ n = Len(P) + 1
    BY <1>1 DEF Meets
  <2>2. s.pc = Len(P) + 1
    BY <1>3, <2>1
  <2>3. t.pc = Len(F) + 1
    BY <1>1, <1>3, <2>2
  <2> QED BY <1>1, <2>3
<1> QED BY <1>2, <1>3 DEF Alike

\* What is seen of the moments of p from i on, and of those of q from j on, stays as it is, for
\* ever or until the two are alike again.
StayAlike(P, at, D, p, q, i, j) ==
  \/ /\ \A n \in Nat : i <= n => Sight(p[n]) = Sight(p[i])
     /\ \A n \in Nat : j <= n => Sight(q[n]) = Sight(q[j])
  \/ \E k \in Nat \ {0}, l \in Nat :
       /\ Alike(P, at, D, p[i + k], q[j + l])
       /\ \A n \in i .. i + k - 1 : Sight(p[n]) = Sight(p[i])
       /\ \A n \in j .. j + l - 1 : Sight(q[n]) = Sight(q[j])
       /\ l = 0 => p[i].pc < p[i + k].pc

\* It does when they are alike.
LEMMA NextMeeting ==
  ASSUME NEW Lines, NEW Values, NEW P, IsSequence(P), NEW F, NEW at, Laid(P, F, at),
         NEW D, Meets(Lines, Values, P, F, at, D),
         NEW p, Trace(Lines, Values, P, p),
         NEW q, Trace(Lines, Values, F, q),
         NEW i \in Nat, NEW j \in Nat, Alike(P, at, D, p[i], q[j])
  PROVE  StayAlike(P, at, D, p, q, i, j)
<1>1. D \subseteq 1 .. Len(P) + 1 /\ Len(P) \in Nat /\ DOMAIN P = 1 .. Len(P)
  BY DEF Meets, IsSequence
<1>2. CASE p[i].pc \notin DOMAIN P
  <2>1. q[j].pc \notin DOMAIN F
    BY <1>1, <1>2, AlikeStopped
  <2>2. \A n \in Nat : i <= n => p[n] = p[i]
    BY <1>2, StoppedStays DEF Trace
  <2>3. \A n \in Nat : j <= n => q[n] = q[j]
    BY <2>1, StoppedStays DEF Trace
  <2> QED BY <2>2, <2>3 DEF StayAlike
<1>3. CASE p[i].pc \in DOMAIN P
  <2>1. p[i].pc \in D /\ q[j].pc = at[p[i].pc] /\ p[i].pc # 0
    <3>1. \A n \in DOMAIN P : n # 0
      BY <1>1
    <3> QED BY <1>3, <3>1 DEF Alike
  <2>2. q[j].pc # 0
    <3>1. at \in [1 .. Len(P) + 1 -> Nat \ {0}]
      BY DEF Laid
    <3>2. \A n \in D : at[n] # 0
      BY <1>1, <3>1
    <3> QED BY <2>1, <3>2
  <2>3. Follow(Lines, Values, P, F, at, D, p[i].pc)
    BY <1>3, <2>1 DEF Meets
  <2>4. p[i] \in Moments(Lines, Values) /\ q[j] \in Moments(Lines, Values)
    BY DEF Trace
  <2>5. PICK s2 \in Moments(Lines, Values), t2 \in Moments(Lines, Values), k \in Nat \ {0}, l \in Nat :
          /\ Goes(P, p[i], k, s2) /\ Goes(F, q[j], l, t2)
          /\ Alike(P, at, D, s2, t2)
          /\ l = 0 => p[i].pc < s2.pc
    BY <2>3, <2>4 DEF Follow
  <2>6. Passes(p, i, k, s2)
    <3>1. LineByLine(P, p) /\ Goes(P, p[i], k, s2) /\ k \in Nat /\ i \in Nat
      BY <2>5 DEF Trace
    <3> QED BY ONLY <3>1, GoesAlong
  <2>7. Passes(q, j, l, t2)
    <3>1. LineByLine(F, q) /\ Goes(F, q[j], l, t2) /\ l \in Nat /\ j \in Nat
      BY <2>5 DEF Trace
    <3> QED BY ONLY <3>1, GoesAlong
  <2>8. \A n \in i .. i + k - 1 : Sight(p[n]) = Sight(p[i])
    BY <2>1, <2>6 DEF Sight, Passes
  <2>9. \A n \in j .. j + l - 1 : Sight(q[n]) = Sight(q[j])
    BY <2>2, <2>7 DEF Sight, Passes
  <2>10. p[i + k] = s2 /\ q[j + l] = t2
    BY <2>6, <2>7 DEF Passes
  <2> QED BY <2>5, <2>8, <2>9, <2>10 DEF StayAlike
<1> QED BY <1>2, <1>3 DEF StayAlike

\* So everything that is seen of one run is seen at a meeting.
LEMMA SeenAtMeetings ==
  ASSUME NEW Lines, NEW Values, NEW P, IsSequence(P), NEW F, NEW at, Laid(P, F, at),
         NEW D, Meets(Lines, Values, P, F, at, D),
         NEW p, Trace(Lines, Values, P, p),
         NEW q, Trace(Lines, Values, F, q),
         Alike(P, at, D, p[0], q[0]), NEW n \in Nat
  PROVE  /\ \E i, j \in Nat : Alike(P, at, D, p[i], q[j]) /\ Sight(p[n]) = Sight(p[i])
         /\ \E i, j \in Nat : Alike(P, at, D, p[i], q[j]) /\ Sight(q[n]) = Sight(q[j])
<1> DEFINE Both(i, j) == Alike(P, at, D, p[i], q[j])
           rank(i) == Len(P) + 1 - p[i].pc
           v == [k \in Nat |-> Sight(p[k])]
           w == [k \in Nat |-> Sight(q[k])]
           M == {m \in Nat \X Nat : m[2] = 0 /\ \E j \in Nat : Both(m[1], j)}
           N == {m \in Nat \X Nat : \E i \in Nat : Both(i, m[1]) /\ m[2] = rank(i)}
<1>1. D \subseteq 1 .. Len(P) + 1 /\ Len(P) \in Nat
  BY DEF Meets, IsSequence
<1>2. ASSUME NEW i \in Nat, NEW j \in Nat, Both(i, j) PROVE rank(i) \in Nat
  <2>1. p[i].pc = 0 \/ p[i].pc \in D
    BY <1>2 DEF Alike
  <2>2. \A c \in Nat : c = 0 \/ c \in D => Len(P) + 1 - c \in Nat
    BY <1>1
  <2>3. p[i].pc \in Nat
    <3>1. p[i] \in Moments(Lines, Values)
      BY DEF Trace
    <3> QED BY <3>1, MomentParts
  <2> QED BY <2>1, <2>2, <2>3
<1>3. ASSUME NEW i \in Nat, NEW j \in Nat, Both(i, j)
      PROVE  \/ (\A k \in Nat : i <= k => v[k] = v[i]) /\ (\A k \in Nat : j <= k => w[k] = w[j])
             \/ \E i2, j2 \in Nat : /\ Both(i2, j2)
                                    /\ i < i2 /\ (j < j2 \/ (j = j2 /\ rank(i2) < rank(i)))
                                    /\ Constant(v, i, i2) /\ Constant(w, j, j2)
  <2>1. StayAlike(P, at, D, p, q, i, j)
    <3>1. Alike(P, at, D, p[i], q[j])
      BY <1>3
    <3> HIDE DEF Both, rank, v, w
    <3> QED BY <3>1, NextMeeting
  <2>2. CASE /\ \A k \in Nat : i <= k => Sight(p[k]) = Sight(p[i])
             /\ \A k \in Nat : j <= k => Sight(q[k]) = Sight(q[j])
    BY <2>2
  <2>3. CASE \E k \in Nat \ {0}, l \in Nat :
               /\ Alike(P, at, D, p[i + k], q[j + l])
               /\ \A m \in i .. i + k - 1 : Sight(p[m]) = Sight(p[i])
               /\ \A m \in j .. j + l - 1 : Sight(q[m]) = Sight(q[j])
               /\ l = 0 => p[i].pc < p[i + k].pc
    <3>1. PICK k \in Nat \ {0}, l \in Nat :
               /\ Alike(P, at, D, p[i + k], q[j + l])
               /\ \A m \in i .. i + k - 1 : Sight(p[m]) = Sight(p[i])
               /\ \A m \in j .. j + l - 1 : Sight(q[m]) = Sight(q[j])
               /\ l = 0 => p[i].pc < p[i + k].pc
      BY <2>3
    <3>2. i + k \in Nat /\ j + l \in Nat /\ i < i + k /\ (j < j + l \/ (l = 0 /\ j = j + l))
      OBVIOUS
    <3>3. Both(i + k, j + l)
      BY <3>1
    <3>4. rank(i) \in Nat /\ rank(i + k) \in Nat
      BY <1>2, <1>3, <3>2, <3>3
    <3>5. p[i].pc \in Nat /\ p[i + k].pc \in Nat
      <4>1. p[i] \in Moments(Lines, Values) /\ p[i + k] \in Moments(Lines, Values)
        BY <3>2 DEF Trace
      <4> QED BY <4>1, MomentParts
    <3>6. l = 0 => rank(i + k) < rank(i)
      <4>1. \A c, d \in Nat : c < d => Len(P) + 1 - d < Len(P) + 1 - c
        BY <1>1
      <4> QED BY <3>1, <3>5, <4>1
    <3>7. Constant(v, i, i + k)
      <4>1. \A m \in i .. i + k - 1 : m \in Nat
        OBVIOUS
      <4> QED BY <3>1, <4>1 DEF Constant
    <3>8. Constant(w, j, j + l)
      <4>1. \A m \in j .. j + l - 1 : m \in Nat
        OBVIOUS
      <4> QED BY <3>1, <4>1 DEF Constant
    <3> HIDE DEF Both, rank, v, w
    <3> QED BY <3>2, <3>3, <3>6, <3>7, <3>8
  <2> HIDE DEF Both, rank, v, w
  <2> QED BY <2>1, <2>2, <2>3 DEF StayAlike
<1>4. Both(0, 0)
  OBVIOUS
<1> HIDE DEF Both, rank, v, w
<1>5. Covering(v, M)
  <2>1. M \subseteq Nat \X Nat /\ <<0, 0>> \in M
    BY <1>4
  <2>2. ASSUME NEW i \in Nat, NEW r \in Nat, <<i, r>> \in M
        PROVE  \/ \A k \in Nat : i <= k => v[k] = v[i]
               \/ \E i2, r2 \in Nat : <<i2, r2>> \in M /\ (i < i2 \/ (i = i2 /\ r2 < r)) /\ Constant(v, i, i2)
    <3>1. PICK j \in Nat : Both(i, j)
      BY <2>2
    <3>2. CASE \A k \in Nat : i <= k => v[k] = v[i]
      BY <3>2
    <3>3. CASE \E i2, j2 \in Nat : Both(i2, j2) /\ i < i2 /\ Constant(v, i, i2)
      <4>1. PICK i2 \in Nat, j2 \in Nat : Both(i2, j2) /\ i < i2 /\ Constant(v, i, i2)
        BY <3>3
      <4>2. <<i2, 0>> \in M
        BY <4>1
      <4> HIDE DEF M
      <4> QED BY <4>1, <4>2
    <3> QED BY <1>3, <3>1, <3>2, <3>3
  <2>3. 0 \in Nat
    OBVIOUS
  <2> HIDE DEF M
  <2> QED BY <2>1, <2>2, <2>3 DEF Covering
<1>6. Covering(w, N)
  <2>1. N \subseteq Nat \X Nat /\ rank(0) \in Nat /\ <<0, rank(0)>> \in N
    BY <1>2, <1>4
  <2>2. ASSUME NEW j \in Nat, NEW r \in Nat, <<j, r>> \in N
        PROVE  \/ \A k \in Nat : j <= k => w[k] = w[j]
               \/ \E j2, r2 \in Nat : <<j2, r2>> \in N /\ (j < j2 \/ (j = j2 /\ r2 < r)) /\ Constant(w, j, j2)
    <3>1. PICK i \in Nat : Both(i, j) /\ r = rank(i)
      BY <2>2
    <3>2. CASE \A k \in Nat : j <= k => w[k] = w[j]
      BY <3>2
    <3>3. CASE \E i2, j2 \in Nat : /\ Both(i2, j2) /\ (j < j2 \/ (j = j2 /\ rank(i2) < rank(i)))
                                   /\ Constant(w, j, j2)
      <4>1. PICK i2 \in Nat, j2 \in Nat : /\ Both(i2, j2) /\ (j < j2 \/ (j = j2 /\ rank(i2) < rank(i)))
                                          /\ Constant(w, j, j2)
        BY <3>3
      <4>2. rank(i2) \in Nat
        BY <1>2, <4>1
      <4>3. <<j2, rank(i2)>> \in N
        BY <4>1, <4>2
      <4> HIDE DEF N
      <4> QED BY <3>1, <4>1, <4>2, <4>3
    <3>4. \/ \A k \in Nat : j <= k => w[k] = w[j]
          \/ \E i2, j2 \in Nat : /\ Both(i2, j2) /\ (j < j2 \/ (j = j2 /\ rank(i2) < rank(i)))
                                 /\ Constant(w, j, j2)
      BY <1>3, <3>1
    <3> HIDE DEF N
    <3> QED BY <3>2, <3>3, <3>4
  <2> HIDE DEF N
  <2> QED BY <2>1, <2>2 DEF Covering
<1>7. \E i, j \in Nat : Both(i, j) /\ v[n] = v[i]
  <2>1. PICK i \in Nat, r \in Nat : <<i, r>> \in M /\ v[n] = v[i]
    <3> HIDE DEF M, N
    <3> QED BY <1>5, Covered
  <2> QED BY <2>1
<1>8. \E i, j \in Nat : Both(i, j) /\ w[n] = w[j]
  <2>1. PICK j \in Nat, r \in Nat : <<j, r>> \in N /\ w[n] = w[j]
    <3> HIDE DEF M, N
    <3> QED BY <1>6, Covered
  <2> QED BY <2>1
<1> HIDE DEF M, N
<1>9. \A k \in Nat : v[k] = Sight(p[k]) /\ w[k] = Sight(q[k])
  BY DEF v, w
<1> QED BY <1>7, <1>8, <1>9 DEF Both

\* Files that meet again at every line of D show the same.
LEMMA SameSights ==
  ASSUME NEW Lines, NEW Values, Language(Lines), Computes(Lines, Values), StepCounts = Nat,
         NEW P, TextFile(Lines, P), NEW F, Runnable(Lines, F), NEW at, Laid(P, F, at),
         NEW D, Meets(Lines, Values, P, F, at, D), NEW regs \in Starts
  PROVE  Sights(F, regs) = Sights(P, regs)
<1> DEFINE p == Run(P, regs)
           q == Run(F, regs)
<1>1. IsSequence(P) /\ Runnable(Lines, P) /\ regs \in States(Values) /\ D \subseteq 1 .. Len(P) + 1
  BY TextRuns DEF TextFile, Computes, Meets
<1>2. p[0] = Start(regs) /\ Trace(Lines, Values, P, p)
  BY <1>1, RunGoes DEF Trace, LineByLine
<1>3. q[0] = Start(regs) /\ Trace(Lines, Values, F, q)
  BY <1>1, RunGoes DEF Trace, LineByLine
<1>4. Sights(P, regs) = {Sight(p[n]) : n \in Nat} /\ Sights(F, regs) = {Sight(q[n]) : n \in Nat}
  BY DEF Sights
<1> HIDE DEF p, q
<1>5. Alike(P, at, D, p[0], q[0])
  <2>1. 1 \in D /\ at[1] = 1
    BY DEF Meets, Laid
  <2>2. Agree(regs, regs, Needs(Decoded(P), Ahead(P, 1)))
    BY DEF Agree
  <2>3. Alike(P, at, D, At(1, <<>>, regs), At(at[1], <<>>, regs))
    BY <2>1, <2>2, AlikeMade
  <2> QED BY <1>2, <1>3, <2>1, <2>3 DEF Start
<1>6. \A i, j \in Nat : Alike(P, at, D, p[i], q[j]) => Sight(p[i]) = Sight(q[j])
  <2> SUFFICES ASSUME NEW i \in Nat, NEW j \in Nat, Alike(P, at, D, p[i], q[j])
               PROVE  Sight(p[i]) = Sight(q[j])
    OBVIOUS
  <2> QED BY <1>1, AlikeSeen
<1>7. \A n \in Nat : /\ \E i, j \in Nat : Alike(P, at, D, p[i], q[j]) /\ Sight(p[n]) = Sight(p[i])
                     /\ \E i, j \in Nat : Alike(P, at, D, p[i], q[j]) /\ Sight(q[n]) = Sight(q[j])
  <2> SUFFICES ASSUME NEW n \in Nat
               PROVE  /\ \E i, j \in Nat : Alike(P, at, D, p[i], q[j]) /\ Sight(p[n]) = Sight(p[i])
                      /\ \E i, j \in Nat : Alike(P, at, D, p[i], q[j]) /\ Sight(q[n]) = Sight(q[j])
    OBVIOUS
  <2> QED BY <1>1, <1>2, <1>3, <1>5, SeenAtMeetings
<1>8. \A n \in Nat : (\E j \in Nat : Sight(p[n]) = Sight(q[j])) /\ (\E i \in Nat : Sight(q[n]) = Sight(p[i]))
  <2> SUFFICES ASSUME NEW n \in Nat
               PROVE  (\E j \in Nat : Sight(p[n]) = Sight(q[j])) /\ (\E i \in Nat : Sight(q[n]) = Sight(p[i]))
    OBVIOUS
  <2>1. PICK i \in Nat, j \in Nat : Alike(P, at, D, p[i], q[j]) /\ Sight(p[n]) = Sight(p[i])
    BY <1>7
  <2>2. PICK k \in Nat, l \in Nat : Alike(P, at, D, p[k], q[l]) /\ Sight(q[n]) = Sight(q[l])
    BY <1>7
  <2> QED BY <1>6, <2>1, <2>2
<1> QED BY <1>4, <1>8

\* The code x stands in F where line n of P was.
Stands(P, F, at, n, x) ==
  at[n + 1] = at[n] + Len(x) /\ \A k \in 1 .. Len(x) : F[at[n] + k - 1] = x[k]

\* An expansion has taken the place of an instruction, which may use the registers that are
\* not needed behind it.
Expanded(P, F, at, n) ==
  /\ P[n].op # "label"
  /\ \E number \in Nat :
       /\ GivenBefore(number, P[n].label)
       /\ \E x \in Expansions(P[n], Registers \ NeededAfter(Decoded(P), Ahead(P, n)), number) :
            Stands(P, F, at, n, x)

\* Two sequences, one behind the other.
LEMMA Concatenation ==
  ASSUME NEW S, NEW p \in Seq(S), NEW q \in Seq(S)
  PROVE  /\ p \o q \in Seq(S)
         /\ Len(p) \in Nat /\ Len(q) \in Nat /\ Len(p \o q) = Len(p) + Len(q)
         /\ \A x \in 1 .. Len(p) : (p \o q)[x] = p[x]
         /\ \A j \in 1 .. Len(q) : (p \o q)[Len(p) + j] = q[j]
<1>1. p \o q \in Seq(S)
  OBVIOUS
<1>2. Len(p) \in Nat /\ Len(q) \in Nat /\ Len(p \o q) = Len(p) + Len(q)
  OBVIOUS
<1>3. ASSUME NEW x \in 1 .. Len(p) PROVE (p \o q)[x] = p[x]
  OBVIOUS
<1>4. ASSUME NEW j \in 1 .. Len(q) PROVE (p \o q)[Len(p) + j] = q[j]
  OBVIOUS
<1> QED BY <1>1, <1>2, <1>3, <1>4

\* The code x, followed by a line and its label.
LineBehind(S, line, x) ==
  /\ Len(S) = Len(x) + 2 /\ DOMAIN S = 1 .. Len(x) + 2
  /\ \A k \in 1 .. Len(x) : S[k] = x[k]
  /\ S[Len(x) + 1] = line
  /\ S[Len(x) + 2] = [line EXCEPT !.op = "label"]

\* A code on its own, followed by the two places that the line can go on to.
LEMMA StandaloneParts ==
  ASSUME NEW line, NEW x, IsSequence(x)
  PROVE  LineBehind(Standalone(line, x), line, x)
<1> DEFINE label == [line EXCEPT !.op = "label"]
           S == {x[k] : k \in DOMAIN x} \cup {line, label}
           y == <<line, label>>
           N == Len(x)
<1>1. N \in Nat /\ x \in Seq(S) /\ y \in Seq(S)
  <2>1. x \in [1 .. N -> S] /\ N \in Nat
    BY DEF IsSequence
  <2> QED BY <2>1
<1>2. Len(y) = 2 /\ y[1] = line /\ y[2] = label
  OBVIOUS
<1>3. Standalone(line, x) = x \o y
  BY DEF Standalone
<1> HIDE DEF y, S, label
<1>4. Len(x) = N /\ 1 \in 1 .. Len(y) /\ 2 \in 1 .. Len(y)
  BY <1>2 DEF N
<1> HIDE DEF N
<1>5. /\ x \o y \in Seq(S)
      /\ Len(x \o y) = N + 2
      /\ \A k \in 1 .. N : (x \o y)[k] = x[k]
      /\ (x \o y)[N + 1] = y[1] /\ (x \o y)[N + 2] = y[2]
  <2>1. /\ x \o y \in Seq(S)
        /\ Len(x) \in Nat /\ Len(y) \in Nat /\ Len(x \o y) = Len(x) + Len(y)
        /\ \A k \in 1 .. Len(x) : (x \o y)[k] = x[k]
        /\ \A j \in 1 .. Len(y) : (x \o y)[Len(x) + j] = y[j]
    BY ONLY <1>1, Concatenation
  <2> QED BY <1>2, <1>4, <2>1
<1>6. DOMAIN (x \o y) = 1 .. N + 2
  <2> DEFINE z == x \o y
  <2>1. z \in Seq(S) /\ Len(z) = N + 2
    BY <1>5
  <2> HIDE DEF z
  <2>2. DOMAIN z = 1 .. N + 2
    BY <2>1
  <2> QED BY <2>2 DEF z
<1> QED BY <1>2, <1>3, <1>5, <1>6 DEF label, N, LineBehind

\* What the hook answers has new labels only, and its branches are settled.
LEMMA ExpansionIsText ==
  ASSUME NEW Lines, Language(Lines), NEW line \in Lines, line.op # "label",
         NEW number \in Nat, GivenBefore(number, line.label),
         NEW scratch \in SUBSET Registers, NEW x \in Expansions(line, scratch, number)
  PROVE  /\ x \in Seq(Lines) /\ IsSequence(x)
         /\ \A k \in LabelsIn(x) : ~OfSource(x[k].label) /\ x[k].label # line.label
         /\ \A k, l \in LabelsIn(x) : x[k].label = x[l].label => k = l
         /\ \A k \in DOMAIN x : x[k].op \in LabelBranches =>
              \/ \E l \in LabelsIn(x) : x[l].label = x[k].label
              \/ line.op \in LabelBranches /\ x[k].label = line.label
<1>1. x \in Seq(Lines) /\ LabelsAreFresh(line, x, number)
  BY DEF Language
<1>2. IsSequence(x)
  BY <1>1 DEF IsSequence
<1>3. ASSUME NEW k \in LabelsIn(x) PROVE ~OfSource(x[k].label) /\ x[k].label # line.label
  <2> DEFINE top == number + Cardinality(LabelsIn(x)) - 1
  <2>1. PICK m \in number .. top : x[k].label = Fresh(x[k].label[1], m)
    BY <1>1 DEF LabelsAreFresh
  <2>2. m \notin 0 .. number - 1
    BY <2>1
  <2> DEFINE hint == x[k].label[1]
  <2> HIDE DEF hint
  <2>3. x[k].label = <<hint, m>>
    BY <2>1 DEF Fresh, hint
  <2>4. Len(x[k].label) = 2 /\ x[k].label[2] = m
    BY <2>3
  <2> QED BY <2>2, <2>4 DEF OfSource, GivenBefore
<1> QED BY <1>1, <1>2, <1>3 DEF LabelsAreFresh

\* So it runs on its own, and control stays in it or goes where the line does.
LEMMA StandaloneRuns ==
  ASSUME NEW Lines, Language(Lines), NEW line \in Lines, line.op # "label",
         NEW number \in Nat, GivenBefore(number, line.label),
         NEW scratch \in SUBSET Registers, NEW x \in Expansions(line, scratch, number)
  PROVE  /\ Runnable(Lines, Standalone(line, x))
         /\ \A k \in 1 .. Len(x) : x[k].op \in LabelBranches =>
              \/ \E l \in LabelsIn(x) : /\ x[l].label = x[k].label /\ ~OfSource(x[k].label)
                                        /\ LabelLine(Standalone(line, x), x[k].label) = l
              \/ /\ line.op \in LabelBranches /\ x[k].label = line.label
                 /\ LabelLine(Standalone(line, x), x[k].label) = Len(x) + 2
<1> DEFINE S == Standalone(line, x)
           N == Len(x)
<1>1. /\ x \in Seq(Lines) /\ IsSequence(x)
      /\ \A k \in LabelsIn(x) : ~OfSource(x[k].label) /\ x[k].label # line.label
      /\ \A k, l \in LabelsIn(x) : x[k].label = x[l].label => k = l
      /\ \A k \in DOMAIN x : x[k].op \in LabelBranches =>
           \/ \E l \in LabelsIn(x) : x[l].label = x[k].label
           \/ line.op \in LabelBranches /\ x[k].label = line.label
  BY ExpansionIsText
<1>2. N \in Nat /\ DOMAIN x = 1 .. N /\ \A k \in 1 .. N : x[k] \in Lines
  BY <1>1 DEF IsSequence
<1>3. /\ Len(S) = N + 2 /\ DOMAIN S = 1 .. N + 2
      /\ \A k \in 1 .. N : S[k] = x[k]
      /\ S[N + 1] = line /\ S[N + 2] = [line EXCEPT !.op = "label"]
  BY <1>1, StandaloneParts DEF LineBehind
<1>4. S[N + 2].op = "label" /\ S[N + 2].label = line.label
  <2>1. DOMAIN line = {"op", "dest", "args", "guard", "label", "static", "tag", "body", "live"}
    BY DEF Language, IsLine
  <2> QED BY <1>3, <2>1
<1> HIDE DEF S, N
<1>5. \A k \in 1 .. N + 2 : k \in 1 .. N \/ k = N + 1 \/ k = N + 2
  BY <1>2
<1>6. N + 1 \in 1 .. N + 2 /\ N + 2 \in 1 .. N + 2 /\ \A k \in 1 .. N : k \in 1 .. N + 2 /\ k # N + 2
  BY <1>2
<1>7. \A k : k \in LabelsIn(S) <=> k \in LabelsIn(x) \/ k = N + 2
  BY <1>2, <1>3, <1>4, <1>5, <1>6 DEF LabelsIn
<1>8. \A k \in LabelsIn(x) : S[k] = x[k] /\ k \in 1 .. N
  BY <1>2, <1>3 DEF LabelsIn
<1>9. LabelsResolve(S)
  <2>1. ASSUME NEW k \in LabelsIn(S), NEW l \in LabelsIn(S), S[k].label = S[l].label PROVE k = l
    <3>1. CASE k \in LabelsIn(x) /\ l \in LabelsIn(x)
      BY <1>1, <1>8, <2>1, <3>1
    <3>2. CASE k \in LabelsIn(x) /\ l = N + 2
      BY <1>1, <1>4, <1>8, <2>1, <3>2
    <3>3. CASE l \in LabelsIn(x) /\ k = N + 2
      BY <1>1, <1>4, <1>8, <2>1, <3>3
    <3> QED BY <1>7, <3>1, <3>2, <3>3
  <2>2. ASSUME NEW k \in DOMAIN S, S[k].op \in LabelBranches
        PROVE  \E m \in LabelsIn(S) : S[m].label = S[k].label
    <3>1. CASE k \in 1 .. N
      <4>1. S[k] = x[k] /\ k \in DOMAIN x
        BY <1>2, <1>3, <3>1
      <4>2. \/ \E l \in LabelsIn(x) : x[l].label = S[k].label
            \/ S[k].label = line.label
        BY <1>1, <2>2, <4>1
      <4> QED BY <1>4, <1>7, <1>8, <4>2
    <3>2. CASE k = N + 1
      BY <1>3, <1>4, <1>7, <3>2
    <3>3. CASE k = N + 2
      BY <1>4, <2>2, <3>3, OperationsAssumption
    <3> QED BY <1>3, <1>5, <3>1, <3>2, <3>3
  <2> QED BY <2>1, <2>2 DEF LabelsResolve
<1>10. Runnable(Lines, S)
  <2>1. \A k \in DOMAIN S : Runs(Lines, S[k])
    BY <1>2, <1>3, <1>4, <1>5 DEF Runs
  <2>2. Len(S) \in Nat /\ DOMAIN S = 1 .. Len(S)
    BY <1>2, <1>3
  <2> QED BY <1>9, <2>1, <2>2 DEF Runnable
<1>11. \A k \in LabelsIn(S) : k \in DOMAIN S /\ S[k].op = "label"
  BY DEF LabelsIn
<1>12. \A k \in LabelsIn(S) : LabelLine(S, S[k].label) = k
  BY <1>9, <1>11, LabelsAreFound
<1>13. ASSUME NEW k \in 1 .. N, x[k].op \in LabelBranches
       PROVE  \/ \E l \in LabelsIn(x) : /\ x[l].label = x[k].label /\ ~OfSource(x[k].label)
                                        /\ LabelLine(S, x[k].label) = l
              \/ /\ line.op \in LabelBranches /\ x[k].label = line.label
                 /\ LabelLine(S, x[k].label) = N + 2
  <2>1. CASE \E l \in LabelsIn(x) : x[l].label = x[k].label
    <3>1. PICK l \in LabelsIn(x) : x[l].label = x[k].label
      BY <2>1
    <3>2. LabelLine(S, x[k].label) = l
      BY <1>7, <1>8, <1>12, <3>1
    <3> QED BY <1>1, <3>1, <3>2
  <2>2. CASE line.op \in LabelBranches /\ x[k].label = line.label
    <3>1. LabelLine(S, x[k].label) = N + 2
      BY <1>4, <1>7, <1>12, <2>2
    <3> QED BY <2>2, <3>1
  <2> QED BY <1>1, <1>2, <1>13, <2>1, <2>2
<1> QED BY <1>10, <1>13 DEF S, N

\* The moment t of F mirrors the moment q of a code of length size on its own, which stands at
\* line a, for a line whose label is at line jump.
Mirrors(line, size, a, jump, seen, q, t) ==
  /\ t.regs = q.regs
  /\ \/ q.pc = 0 /\ t.pc = 0 /\ t.seen = seen
     \/ q.pc \in 1 .. size + 1 /\ t.pc = a + q.pc - 1 /\ t.seen = seen
     \/ /\ q.pc = size + 2 /\ line.op \in LabelBranches
        /\ t.pc = jump /\ t.seen = Jumped(seen, line.label)

\* Line by line.
LEMMA MirrorGoes ==
  ASSUME NEW Lines, NEW Values, Language(Lines), Computes(Lines, Values),
         NEW P, TextFile(Lines, P), NEW F, Runnable(Lines, F), NEW at, Laid(P, F, at),
         NEW n \in DOMAIN P, P[n].op # "label",
         NEW number \in Nat, GivenBefore(number, P[n].label),
         NEW scratch \in SUBSET Registers, NEW x \in Expansions(P[n], scratch, number),
         Stands(P, F, at, n, x), NEW seen,
         NEW q \in Moments(Lines, Values), NEW t \in Moments(Lines, Values), q.pc \in 1 .. Len(x),
         Mirrors(P[n], Len(x), at[n], at[LabelLine(P, P[n].label)], seen, q, t)
  PROVE  Mirrors(P[n], Len(x), at[n], at[LabelLine(P, P[n].label)], seen,
                 ExecuteLine(Standalone(P[n], x), q), ExecuteLine(F, t))
<1> DEFINE line == P[n]
           S == Standalone(line, x)
           N == Len(x)
           a == at[n]
           jump == at[LabelLine(P, line.label)]
           here == x[q.pc]
           q2 == ExecuteLine(S, q)
           t2 == ExecuteLine(F, t)
<1>1. /\ IsSequence(P) /\ line \in Lines /\ n \in 1 .. Len(P) /\ Len(P) \in Nat /\ LabelsResolve(P)
      /\ IsSequence(F) /\ DOMAIN F = 1 .. Len(F) /\ Len(F) \in Nat /\ LabelsResolve(F)
  BY DEF TextFile, IsSequence, Laid, Runnable
<1>2. x \in Seq(Lines) /\ IsSequence(x)
  <2> HIDE DEF S
  <2> QED BY <1>1, ExpansionIsText
<1>3. N \in Nat /\ DOMAIN x = 1 .. N /\ here \in Lines /\ q.pc \in 1 .. N
  BY <1>2
<1>4. /\ DOMAIN S = 1 .. N + 2 /\ S[q.pc] = here
  <2>1. DOMAIN S = 1 .. N + 2 /\ \A k \in 1 .. N : S[k] = x[k]
    <3>1. LineBehind(Standalone(line, x), line, x)
      BY <1>2, StandaloneParts
    <3> QED BY <3>1 DEF LineBehind
  <2> QED BY <1>3, <2>1
<1>5. /\ \A k \in 1 .. N : x[k].op \in LabelBranches =>
           \/ \E l \in LabelsIn(x) : /\ x[l].label = x[k].label /\ ~OfSource(x[k].label)
                                     /\ LabelLine(S, x[k].label) = l
           \/ /\ line.op \in LabelBranches /\ x[k].label = line.label
              /\ LabelLine(S, x[k].label) = N + 2
  BY <1>1, StandaloneRuns
<1>6. line.op \in LabelBranches => LabelLine(F, line.label) = jump
  BY <1>1, LaidLabels
<1>7. a \in Nat \ {0} /\ at[n + 1] \in Nat \ {0} /\ at[n + 1] <= Len(F) + 1 /\ at[n + 1] = a + N
  <2>1. n \in 1 .. Len(P) + 1 /\ n + 1 \in 1 .. Len(P) + 1
    BY <1>1
  <2>2. a \in 1 .. Len(F) + 1 /\ at[n + 1] \in 1 .. Len(F) + 1
    BY <1>1, <2>1, LaidInside
  <2> QED BY <1>1, <2>2 DEF Stands
<1> HIDE DEF a, N
<1>8. \A k \in 1 .. N : a + k - 1 \in DOMAIN F /\ F[a + k - 1] = x[k]
  <2>1. \A k \in 1 .. N : a + k - 1 \in 1 .. Len(F)
    BY <1>1, <1>3, <1>7
  <2> QED BY <1>1, <2>1 DEF Stands, a, N
<1>9. Mirrors(line, N, a, jump, seen, q, t)
  BY DEF N, a
<1> HIDE DEF line, S, jump, here, q2, t2
<1> SUFFICES Mirrors(line, N, a, jump, seen, q2, t2)
  BY DEF line, N, a, jump, q2, t2, S
<1>10. t.regs = q.regs /\ t.pc = a + q.pc - 1 /\ t.seen = seen
  <2>1. q.pc # 0 /\ q.pc # N + 2
    BY <1>3
  <2> QED BY <1>9, <2>1 DEF Mirrors
<1>11. t.pc \in DOMAIN F /\ F[t.pc] = here /\ q.pc \in DOMAIN S
  <2>1. q.pc \in 1 .. N + 2
    BY <1>3
  <2>2. F[a + q.pc - 1] = here
    BY <1>3, <1>8 DEF here
  <2> QED BY <1>3, <1>4, <1>8, <1>10, <2>1, <2>2
<1>12. t.pc + 1 = a + (q.pc + 1) - 1 /\ q.pc + 1 \in 1 .. N + 1
  <2>1. \A c \in 1 .. N : a + c - 1 + 1 = a + (c + 1) - 1 /\ c + 1 \in 1 .. N + 1
    BY <1>3, <1>7
  <2> QED BY <1>3, <1>10, <2>1
<1>13. ASSUME NEW seen1, NEW regs, q2 = At(q.pc + 1, seen1, regs), t2 = At(t.pc + 1, seen, regs)
       PROVE  Mirrors(line, N, a, jump, seen, q2, t2)
  <2>1. q2.pc = q.pc + 1 /\ q2.regs = regs /\ t2.pc = t.pc + 1 /\ t2.seen = seen /\ t2.regs = regs
    BY <1>13, PartsOfMoment
  <2>2. q2.pc \in 1 .. N + 1 /\ t2.pc = a + q2.pc - 1
    BY <1>12, <2>1
  <2> QED BY <2>1, <2>2 DEF Mirrors
<1>14. CASE here.op = "label"
  <2>1. q2 = At(q.pc + 1, q.seen, q.regs)
    BY <1>4, <1>11, <1>14, LabelEffect DEF q2
  <2>2. t2 = At(t.pc + 1, seen, q.regs)
    BY <1>10, <1>11, <1>14, LabelEffect DEF t2
  <2> QED BY <1>13, <2>1, <2>2
<1>15. CASE here.op # "label"
  <2> DEFINE after == Assign(q.regs, here)
  <2>1. here.op \notin {"label", "best"}
    BY <1>3, <1>15 DEF Language, IsLine
  <2>2. /\ Exit(here, q.regs) = "out" => q2 = At(0, q.seen, after)
        /\ Exit(here, q.regs) = "jump" =>
             /\ here.op \in LabelBranches
             /\ q2 = At(LabelLine(S, here.label), Jumped(q.seen, here.label), after)
        /\ Exit(here, q.regs) = "on" => q2 = At(q.pc + 1, q.seen, after)
        /\ Exit(here, q.regs) \in {"out", "jump", "on"}
    BY <1>4, <1>11, <2>1, InstructionEffect DEF q2
  <2>3. /\ Exit(here, q.regs) = "out" => t2 = At(0, seen, after)
        /\ Exit(here, q.regs) = "jump" =>
             t2 = At(LabelLine(F, here.label), Jumped(seen, here.label), after)
        /\ Exit(here, q.regs) = "on" => t2 = At(t.pc + 1, seen, after)
    <3>1. /\ Exit(here, t.regs) = "out" => t2 = At(0, t.seen, Assign(t.regs, here))
          /\ Exit(here, t.regs) = "jump" =>
               /\ here.op \in LabelBranches
               /\ t2 = At(LabelLine(F, here.label), Jumped(t.seen, here.label), Assign(t.regs, here))
          /\ Exit(here, t.regs) = "on" => t2 = At(t.pc + 1, t.seen, Assign(t.regs, here))
          /\ Exit(here, t.regs) \in {"out", "jump", "on"}
      BY <1>11, <2>1, InstructionEffect DEF t2
    <3> QED BY <1>10, <3>1
  <2> HIDE DEF after
  <2>4. CASE Exit(here, q.regs) = "out"
    <3>1. /\ q2.pc = 0 /\ q2.regs = after
          /\ t2.pc = 0 /\ t2.seen = seen /\ t2.regs = after
      BY <2>2, <2>3, <2>4, PartsOfMoment
    <3> QED BY <3>1 DEF Mirrors
  <2>5. CASE Exit(here, q.regs) = "on"
    BY <1>13, <2>2, <2>3, <2>5
  <2>6. CASE Exit(here, q.regs) = "jump"
    <3>1. /\ q2.pc = LabelLine(S, here.label) /\ q2.regs = after /\ here.op \in LabelBranches
          /\ t2.pc = LabelLine(F, here.label) /\ t2.seen = Jumped(seen, here.label) /\ t2.regs = after
      BY <2>2, <2>3, <2>6, PartsOfMoment
    <3>2. CASE \E l \in LabelsIn(x) : /\ x[l].label = here.label /\ ~OfSource(here.label)
                                      /\ LabelLine(S, here.label) = l
      <4>1. PICK l \in LabelsIn(x) : /\ x[l].label = here.label /\ ~OfSource(here.label)
                                     /\ LabelLine(S, here.label) = l
        BY <3>2
      <4>2. l \in 1 .. N /\ x[l].op = "label"
        BY <1>3 DEF LabelsIn
      <4>3. a + l - 1 \in DOMAIN F /\ F[a + l - 1] = x[l]
        BY <1>8, <4>2
      <4>4. LabelLine(F, here.label) = a + l - 1
        <5> DEFINE m == a + l - 1
        <5>1. m \in DOMAIN F /\ F[m].op = "label" /\ F[m].label = here.label
          BY <4>1, <4>2, <4>3
        <5> HIDE DEF m
        <5>2. LabelLine(F, here.label) = m
          BY <1>1, <5>1, LabelsAreFound
        <5> QED BY <5>2 DEF m
      <4>5. t2.seen = seen
        BY <3>1, <4>1 DEF Jumped
      <4>6. q2.pc \in 1 .. N + 1 /\ t2.pc = a + q2.pc - 1
        <5>1. \A m \in 1 .. N : m \in 1 .. N + 1
          BY <1>3
        <5> QED BY <3>1, <4>1, <4>2, <4>4, <5>1
      <4> QED BY <3>1, <4>5, <4>6 DEF Mirrors
    <3>3. CASE /\ line.op \in LabelBranches /\ here.label = line.label
               /\ LabelLine(S, here.label) = N + 2
      <4>1. q2.pc = N + 2 /\ t2.pc = jump /\ t2.seen = Jumped(seen, line.label)
        BY <1>6, <3>1, <3>3
      <4> QED BY <3>1, <3>3, <4>1 DEF Mirrors
    <3>4. \/ \E l \in LabelsIn(x) : /\ x[l].label = here.label /\ ~OfSource(here.label)
                                    /\ LabelLine(S, here.label) = l
          \/ /\ line.op \in LabelBranches /\ here.label = line.label
             /\ LabelLine(S, here.label) = N + 2
      BY <1>3, <1>5, <3>1 DEF here
    <3> QED BY <3>2, <3>3, <3>4
  <2> QED BY <2>2, <2>4, <2>5, <2>6
<1> QED BY <1>14, <1>15

\* Where a line leaves to when it stands on its own.
LEMMA AloneEffect ==
  ASSUME NEW line, line.op \notin {"label", "best"}, IsLine(line), NEW v
  PROVE  LET s == ExecuteLine(Standalone(line, <<line>>), At(1, <<>>, v))
         IN  /\ s.regs = Assign(v, line)
             /\ s.pc = CASE Exit(line, v) = "out" -> 0
                         [] Exit(line, v) = "jump" -> 3
                         [] Exit(line, v) = "on" -> 2
<1> DEFINE S == Standalone(line, <<line>>)
           one == <<line>>
           s == At(1, <<>>, v)
<1>1. IsSequence(one) /\ Len(one) = 1 /\ one[1] = line
  BY DEF IsSequence
<1> HIDE DEF one
<1>2. S = Standalone(line, one)
  BY DEF one
<1>3. DOMAIN S = 1 .. 3 /\ S[1] = line /\ S[2] = line /\ S[3] = [line EXCEPT !.op = "label"]
  <2>1. LineBehind(Standalone(line, one), line, one)
    BY <1>1, StandaloneParts
  <2>2. Len(one) + 1 = 2 /\ Len(one) + 2 = 3 /\ 1 \in 1 .. Len(one)
    BY <1>1
  <2> QED BY <1>1, <1>2, <2>1, <2>2 DEF LineBehind
<1>4. S[3].op = "label" /\ S[3].label = line.label
  BY <1>3 DEF IsLine
<1> HIDE DEF S
<1>5. LabelsIn(S) = {3}
  <2>1. \A k \in 1 .. 3 : k = 1 \/ k = 2 \/ k = 3
    OBVIOUS
  <2>2. 3 \in 1 .. 3
    OBVIOUS
  <2> QED BY <1>3, <1>4, <2>1, <2>2 DEF LabelsIn
<1>6. LabelLine(S, line.label) = 3
  BY <1>4, <1>5 DEF LabelLine
<1>7. s.pc = 1 /\ s.seen = <<>> /\ s.regs = v
  BY PartsOfMoment
<1> HIDE DEF s
<1> DEFINE t == ExecuteLine(S, s)
<1>8. /\ Exit(line, v) = "out" => t = At(0, <<>>, Assign(v, line))
      /\ Exit(line, v) = "jump" => t = At(3, Jumped(<<>>, line.label), Assign(v, line))
      /\ Exit(line, v) = "on" => t = At(2, <<>>, Assign(v, line))
      /\ Exit(line, v) \in {"out", "jump", "on"}
  <2>1. s.pc \in DOMAIN S /\ line = S[s.pc]
    BY <1>3, <1>7
  <2>2. /\ Exit(line, s.regs) = "out" => ExecuteLine(S, s) = At(0, s.seen, Assign(s.regs, line))
        /\ Exit(line, s.regs) = "jump" =>
             /\ line.op \in LabelBranches
             /\ ExecuteLine(S, s)
                  = At(LabelLine(S, line.label), Jumped(s.seen, line.label), Assign(s.regs, line))
        /\ Exit(line, s.regs) = "on" => ExecuteLine(S, s) = At(s.pc + 1, s.seen, Assign(s.regs, line))
        /\ Exit(line, s.regs) \in {"out", "jump", "on"}
    BY <2>1, InstructionEffect
  <2> QED BY <1>6, <1>7, <2>2
<1> HIDE DEF t
<1>9. /\ t.regs = Assign(v, line)
      /\ Exit(line, v) = "out" => t.pc = 0
      /\ Exit(line, v) = "jump" => t.pc = 3
      /\ Exit(line, v) = "on" => t.pc = 2
  BY <1>8, PartsOfMoment
<1> QED BY <1>8, <1>9 DEF t, s, S

\* In l steps F comes from t to where the line leaves to, with these registers, which agree with
\* what the line leaves on those that are kept.
LeavesAs(Lines, Values, F, t, line, jump, on, kept, l, w) ==
  LET t2 == Leaving(line, t.regs, t.seen, jump, on, w)
  IN  /\ Goes(F, t, l, t2) /\ t2 \in Moments(Lines, Values)
      /\ Agree(Assign(t.regs, line), w, kept)
      /\ l = 0 => Exit(line, t.regs) = "on"

\* Where the line stood, its expansion leads to where the line leaves to, and leaves the same in
\* all registers but the scratch ones.
LEMMA ExpansionGoes ==
  ASSUME NEW Lines, NEW Values, Language(Lines), Computes(Lines, Values), HookKeepsMeaning(Lines, Values),
         NEW P, TextFile(Lines, P), NEW F, Runnable(Lines, F), NEW at, Laid(P, F, at),
         NEW n \in DOMAIN P, P[n].op # "label",
         NEW number \in Nat, GivenBefore(number, P[n].label),
         NEW scratch \in SUBSET Registers, NEW x \in Expansions(P[n], scratch, number),
         Stands(P, F, at, n, x),
         NEW t \in Moments(Lines, Values), t.pc = at[n]
  PROVE  \E l \in Nat, w \in States(Values) :
           LeavesAs(Lines, Values, F, t, P[n], at[LabelLine(P, P[n].label)], at[n + 1],
                    Registers \ scratch, l, w)
<1> DEFINE line == P[n]
           S == Standalone(line, x)
           N == Len(x)
           v == t.regs
           jump == at[LabelLine(P, line.label)]
           alone == ExecuteLine(Standalone(line, <<line>>), At(1, <<>>, v))
           q == Run(S, v)
<1>1. line \in Lines /\ line.op \notin {"label", "best"} /\ IsLine(line)
  BY DEF TextFile, Language, IsLine
<1>2. v \in States(Values)
  BY MomentParts
<1>3. N \in Nat /\ DOMAIN x = 1 .. N
  <2>1. x \in Seq(Lines) /\ IsSequence(x)
    BY <1>1, ExpansionIsText
  <2> QED BY <2>1 DEF IsSequence
<1>4. Runnable(Lines, S)
  BY <1>1, StandaloneRuns
<1>5. /\ q[0] = Start(v)
      /\ \A j \in Nat : q[j] \in Moments(Lines, Values) /\ q[j + 1] = ExecuteLine(S, q[j])
  BY <1>2, <1>4, RunGoes
<1>6. /\ alone.regs = Assign(v, line)
      /\ alone.pc = CASE Exit(line, v) = "out" -> 0
                      [] Exit(line, v) = "jump" -> 3
                      [] Exit(line, v) = "on" -> 2
  BY <1>1, AloneEffect
<1>7. PICK k \in Nat : /\ \A j \in 0 .. k - 1 : q[j].pc \in DOMAIN x
                       /\ q[k].pc = IF alone.pc = 0 THEN 0 ELSE alone.pc + N - 1
                       /\ \A r \in Registers \ scratch : q[k].regs[r] = alone.regs[r]
  <2>1. Replicates(line, x, scratch, v, Nat)
    BY <1>1, <1>2 DEF HookKeepsMeaning
  <2> QED BY <2>1 DEF Replicates
<1> HIDE DEF q, alone
<1> DEFINE M == Moments(Lines, Values)
           step == [s \in M |-> ExecuteLine(F, s)]
<1>8. PICK g \in [Nat -> M] : g[0] = t /\ \A j \in Nat : g[j + 1] = step[g[j]]
  <2>1. step \in [M -> M] /\ t \in M
    BY ExecuteTyped
  <2> HIDE DEF M, step
  <2>2. \E g \in [Nat -> M] : Repeats(g, t, step)
    BY <2>1, EndlessExists
  <2> QED BY <2>2 DEF Repeats
<1>9. \A j \in Nat : g[j] \in M /\ g[j + 1] = ExecuteLine(F, g[j])
  BY <1>8
<1> DEFINE Mirrored(j) == Mirrors(P[n], Len(x), at[n], at[LabelLine(P, P[n].label)], t.seen, q[j], g[j])
           Good == {j \in 0 .. k : Mirrored(j)}
<1>10. 0 \in Good
  <2>1. q[0].pc = 1 /\ q[0].regs = v
    BY <1>5, PartsOfMoment DEF Start
  <2>2. at[n] \in Nat
    <3>1. at \in [1 .. Len(P) + 1 -> Nat \ {0}] /\ n \in 1 .. Len(P) /\ Len(P) \in Nat
      BY DEF Laid, TextFile, IsSequence
    <3>2. n \in 1 .. Len(P) + 1
      BY <3>1
    <3> QED BY <3>1, <3>2
  <2>3. 1 \in 1 .. Len(x) + 1 /\ at[n] + 1 - 1 = at[n]
    BY <1>3, <2>2
  <2>4. Mirrored(0)
    BY <1>8, <2>1, <2>3 DEF Mirrors
  <2> QED BY <2>4
<1>11. ASSUME NEW j \in 0 .. k - 1, j \in Good PROVE j + 1 \in Good
  <2>1. j \in Nat /\ j + 1 \in 0 .. k
    OBVIOUS
  <2>2. q[j].pc \in 1 .. Len(x)
    BY <1>3, <1>7
  <2>3. q[j] \in Moments(Lines, Values) /\ g[j] \in Moments(Lines, Values)
    BY <1>5, <1>9, <2>1
  <2>4. Mirrored(j)
    BY <1>11
  <2>5. Mirrors(P[n], Len(x), at[n], at[LabelLine(P, P[n].label)], t.seen,
                ExecuteLine(Standalone(P[n], x), q[j]), ExecuteLine(F, g[j]))
    <3> HIDE DEF Good
    <3> QED BY <2>2, <2>3, <2>4, MirrorGoes
  <2>6. Mirrored(j + 1)
    BY <1>5, <1>9, <2>1, <2>5
  <2> QED BY <2>1, <2>6
<1>12. \A j \in 0 .. k : Mirrored(j)
  <2> HIDE DEF Good
  <2>1. 0 .. k \subseteq Good
    BY <1>10, <1>11, Counting
  <2> QED BY <2>1 DEF Good
<1> HIDE DEF Good
<1>13. Goes(F, t, k, g[k])
  <2>1. ASSUME NEW j \in 0 .. k - 1
        PROVE  g[j + 1] = ExecuteLine(F, g[j]) /\ g[j].pc # 0 /\ g[j].seen = t.seen
    <3>1. j \in Nat /\ j \in 0 .. k
      OBVIOUS
    <3>2. q[j].pc \in 1 .. N
      BY <1>3, <1>7
    <3>3. q[j].pc # 0 /\ q[j].pc # N + 2
      BY <1>3, <3>2
    <3>4. g[j].pc = at[n] + q[j].pc - 1 /\ g[j].seen = t.seen
      BY <1>12, <3>1, <3>3 DEF Mirrors
    <3>5. at[n] \in Nat \ {0}
      <4>1. at \in [1 .. Len(P) + 1 -> Nat \ {0}] /\ n \in 1 .. Len(P) /\ Len(P) \in Nat
        BY DEF Laid, TextFile, IsSequence
      <4>2. n \in 1 .. Len(P) + 1
        BY <4>1
      <4> QED BY <4>1, <4>2
    <3>6. \A a \in Nat \ {0}, c \in 1 .. N : a + c - 1 # 0
      BY <1>3
    <3> QED BY <1>9, <3>1, <3>2, <3>4, <3>5, <3>6
  <2> QED BY <1>8, <2>1 DEF Goes
<1> DEFINE w == q[k].regs
           t2 == Leaving(line, v, t.seen, jump, at[n + 1], w)
<1>14. g[k] \in M /\ q[k] \in M
  BY <1>5, <1>9
<1>15. w \in States(Values)
  BY <1>14, MomentParts
<1>16. Mirrors(line, N, at[n], jump, t.seen, q[k], g[k])
  <2>1. k \in 0 .. k
    OBVIOUS
  <2> QED BY <1>12, <2>1
<1>17. at[n + 1] = at[n] + N /\ at[n] \in Nat
  <2>1. at \in [1 .. Len(P) + 1 -> Nat \ {0}] /\ n \in 1 .. Len(P) /\ Len(P) \in Nat
    BY DEF Laid, TextFile, IsSequence
  <2>2. n \in 1 .. Len(P) + 1
    BY <2>1
  <2> QED BY <2>1, <2>2 DEF Stands
<1>18. g[k] = At(g[k].pc, g[k].seen, w)
  <2>1. g[k] = At(g[k].pc, g[k].seen, g[k].regs)
    BY <1>14, MomentParts
  <2> QED BY <1>16, <2>1 DEF Mirrors
<1>19. Exit(line, v) \in {"out", "jump", "on"}
  BY DEF Exit
<1> HIDE DEF Mirrored, line, S, N, v, jump, w
<1>20. g[k] = t2
  <2>1. CASE Exit(line, v) = "out"
    <3>1. q[k].pc = 0
      BY <1>6, <1>7, <2>1
    <3>2. g[k].pc = 0 /\ g[k].seen = t.seen
      <4>1. 0 \notin 1 .. N + 1 /\ 0 # N + 2
        BY <1>3
      <4> QED BY <1>16, <3>1, <4>1 DEF Mirrors
    <3> QED BY <1>18, <2>1, <3>2 DEF Leaving
  <2>2. CASE Exit(line, v) = "jump"
    <3>1. q[k].pc = N + 2
      <4>1. alone.pc = 3
        BY <1>6, <2>2
      <4> QED BY <1>3, <1>7, <4>1
    <3>2. g[k].pc = jump /\ g[k].seen = Jumped(t.seen, line.label)
      <4>1. N + 2 \notin 1 .. N + 1 /\ N + 2 # 0
        BY <1>3
      <4> QED BY <1>16, <3>1, <4>1 DEF Mirrors
    <3> QED BY <1>18, <2>2, <3>2 DEF Leaving
  <2>3. CASE Exit(line, v) = "on"
    <3>1. q[k].pc = N + 1
      <4>1. alone.pc = 2
        BY <1>6, <2>3
      <4> QED BY <1>3, <1>7, <4>1
    <3>2. g[k].pc = at[n] + (N + 1) - 1 /\ g[k].seen = t.seen
      <4>1. N + 1 # 0 /\ N + 1 # N + 2
        BY <1>3
      <4> QED BY <1>16, <3>1, <4>1 DEF Mirrors
    <3>3. g[k].pc = at[n + 1]
      BY <1>3, <1>17, <3>2
    <3> QED BY <1>18, <2>3, <3>2, <3>3 DEF Leaving
  <2> QED BY <1>19, <2>1, <2>2, <2>3
<1>21. Agree(Assign(v, line), w, Registers \ scratch)
  BY <1>6, <1>7 DEF Agree, w
<1>22. k = 0 => Exit(line, v) = "on"
  <2> SUFFICES ASSUME k = 0 PROVE Exit(line, v) = "on"
    OBVIOUS
  <2>1. q[k].pc = 1
    BY <1>5, PartsOfMoment DEF Start
  <2>2. alone.pc \in {0, 2, 3}
    BY <1>6, <1>19
  <2>3. alone.pc # 0 /\ alone.pc # 3
    BY <1>3, <1>7, <2>1
  <2> QED BY <1>6, <1>19, <2>3
<1> HIDE DEF t2
<1>23. /\ Goes(F, t, k, t2) /\ t2 \in Moments(Lines, Values)
       /\ Agree(Assign(v, line), w, Registers \ scratch)
       /\ k = 0 => Exit(line, v) = "on"
  BY <1>13, <1>14, <1>20, <1>21, <1>22
<1>24. LeavesAs(Lines, Values, F, t, line, jump, at[n + 1], Registers \ scratch, k, w)
  BY <1>23 DEF t2, v, LeavesAs
<1> QED BY <1>15, <1>24 DEF line, jump

\* So with an expansion in its place the two are alike again where it leaves to.
LEMMA ExpansionFollows ==
  ASSUME NEW Lines, NEW Values, Language(Lines), Computes(Lines, Values), HookKeepsMeaning(Lines, Values),
         NEW P, TextFile(Lines, P), FitsIn(Decoded(P)), ~AnalysisPanics(Decoded(P)),
         NEW F, Runnable(Lines, F), NEW at, Laid(P, F, at),
         NEW D, NEW n \in D \cap DOMAIN P, n + 1 \in D, Expanded(P, F, at, n),
         P[n].op \in LabelBranches => LabelLine(P, P[n].label) \in D
  PROVE  Follow(Lines, Values, P, F, at, D, n)
<1> DEFINE line == P[n]
           after == NeededAfter(Decoded(P), Ahead(P, n))
           free == Registers \ after
<1>0. PICK number \in Nat :
        /\ line.op # "label" /\ GivenBefore(number, line.label)
        /\ \E x \in Expansions(line, free, number) : Stands(P, F, at, n, x)
  BY DEF Expanded
<1>1. PICK x \in Expansions(line, free, number) : Stands(P, F, at, n, x)
  BY <1>0
<1>2. free \in SUBSET Registers /\ Registers \ free = after
  BY DEF NeededAfter
<1>3. line \in Lines /\ line.op \notin {"label", "best"} /\ n \in DOMAIN P
  BY <1>0 DEF TextFile, Language, IsLine
<1>4. n # 0
  BY DEF TextFile, IsSequence
<1> SUFFICES ASSUME NEW s \in Moments(Lines, Values), NEW t \in Moments(Lines, Values),
                    s.pc = n, Alike(P, at, D, s, t)
             PROVE  \E s2, t2 \in Moments(Lines, Values), k \in Nat \ {0}, l \in Nat :
                      /\ Goes(P, s, k, s2) /\ Goes(F, t, l, t2)
                      /\ Alike(P, at, D, s2, t2)
                      /\ l = 0 => n < s2.pc
  BY DEF Follow
<1>5. Agree(s.regs, t.regs, Needs(Decoded(P), Ahead(P, n))) /\ s.seen = t.seen /\ t.pc = at[n]
  BY <1>4 DEF Alike
<1>6. s.regs \in States(Values) /\ t.regs \in States(Values)
  BY MomentParts
<1> DEFINE s2 == ExecuteLine(P, s)
           v == t.regs
           t2(w) == Leaving(P[n], t.regs, t.seen, at[LabelLine(P, P[n].label)], at[n + 1], w)
<1>7. PICK l \in Nat, w \in States(Values) :
        /\ Goes(F, t, l, t2(w)) /\ t2(w) \in Moments(Lines, Values)
        /\ Agree(Assign(t.regs, P[n]), w, Registers \ free)
        /\ l = 0 => Exit(P[n], t.regs) = "on"
  <2> HIDE DEF free
  <2>1. /\ number \in Nat /\ GivenBefore(number, P[n].label) /\ P[n].op # "label" /\ n \in DOMAIN P
        /\ free \in SUBSET Registers /\ x \in Expansions(P[n], free, number) /\ t.pc = at[n]
    BY <1>0, <1>1, <1>2, <1>3, <1>5
  <2> HIDE DEF line, v, after
  <2>2. \E l \in Nat, w \in States(Values) :
          LeavesAs(Lines, Values, F, t, P[n], at[LabelLine(P, P[n].label)], at[n + 1], Registers \ free, l, w)
    BY <1>1, <2>1, ExpansionGoes
  <2> QED BY <2>2 DEF LeavesAs
<1>8. Alike(P, at, D, s2, t2(w))
  <2>1. Agree(Assign(t.regs, P[n]), w, NeededAfter(Decoded(P), Ahead(P, n)))
    BY <1>2, <1>7
  <2>2. t2(w) = Leaving(P[n], t.regs, s.seen, at[LabelLine(P, P[n].label)], at[n + 1], w)
    BY <1>5
  <2>3. n \in DOMAIN P /\ P[n].op # "label"
    BY <1>3
  <2> HIDE DEF t2, line, v, after, free, s2
  <2> QED BY <1>5, <1>6, <2>1, <2>2, <2>3, AlikeAfter DEF s2
<1>9. Goes(P, s, 1, s2)
  BY <1>4, GoesNext
<1>10. s2 \in Moments(Lines, Values)
  BY TextRuns, ExecuteTyped
<1>11. l = 0 => n < s2.pc
  <2> SUFFICES ASSUME l = 0 PROVE n < s2.pc
    OBVIOUS
  <2>1. Exit(P[n], t.regs) = "on"
    BY <1>7
  <2>2. Exit(P[n], s.regs) = Exit(P[n], t.regs)
    <3> HIDE DEF line, v, after, free, s2, t2
    <3> QED BY <1>3, <1>5, LineAgrees DEF line
  <2>3. s2 = At(n + 1, s.seen, Assign(s.regs, P[n]))
    <3>1. Exit(P[n], s.regs) = "on" => ExecuteLine(P, s) = At(s.pc + 1, s.seen, Assign(s.regs, P[n]))
      BY <1>3, InstructionEffect
    <3> QED BY <2>1, <2>2, <3>1
  <2>4. s2.pc = n + 1 /\ n \in Nat
    BY <2>3, PartsOfMoment DEF TextFile, IsSequence
  <2> QED BY <2>4
<1>12. 1 \in Nat \ {0}
  OBVIOUS
<1> HIDE DEF s2, t2
<1> QED BY <1>7, <1>8, <1>9, <1>10, <1>11, <1>12

\* The file while the replacements of a pass are applied.
Spread(P, F, at) == Laid(P, F, at) /\ \A n \in DOMAIN P : Kept(P, F, at, n) \/ Expanded(P, F, at, n)

\* A text with lines replaced is a text of the language again, if its labels resolve.
LEMMA SpreadRuns ==
  ASSUME NEW Lines, Language(Lines), NEW P, TextFile(Lines, P),
         NEW F, LabelsResolve(F), NEW at, Spread(P, F, at)
  PROVE  TextFile(Lines, F)
<1>1. /\ IsSequence(P) /\ DOMAIN P = 1 .. Len(P) /\ Len(P) \in Nat
      /\ IsSequence(F) /\ DOMAIN F = 1 .. Len(F) /\ Len(F) \in Nat
      /\ Laid(P, F, at)
      /\ \A n \in 1 .. Len(P) + 1 : at[n] \in Nat
  BY DEF TextFile, IsSequence, Spread, Laid
<1>2. ASSUME NEW m \in DOMAIN F PROVE F[m] \in Lines
  <2>1. PICK n \in DOMAIN P : m \in at[n] .. at[n + 1] - 1
    BY SMTT(40), <1>1, LaidInside
  <2>2. at[n] \in Nat /\ at[n + 1] \in Nat
    BY <1>1
  <2>3. P[n] \in Lines
    BY DEF TextFile
  <2>4. CASE Kept(P, F, at, n)
    <3>1. m = at[n]
      BY <2>1, <2>2, <2>4 DEF Kept
    <3> QED BY <2>3, <2>4, <3>1 DEF Kept
  <2>5. CASE Expanded(P, F, at, n)
    <3> DEFINE free == Registers \ NeededAfter(Decoded(P), Ahead(P, n))
    <3>1. PICK number \in Nat :
            /\ P[n].op # "label" /\ GivenBefore(number, P[n].label)
            /\ \E x \in Expansions(P[n], free, number) : Stands(P, F, at, n, x)
      BY <2>5 DEF Expanded
    <3>2. PICK x \in Expansions(P[n], free, number) : Stands(P, F, at, n, x)
      BY <3>1
    <3>3. x \in Seq(Lines)
      <4>1. free \in SUBSET Registers
        OBVIOUS
      <4> HIDE DEF free
      <4> QED BY <2>3, <3>1, <3>2, <4>1 DEF Language
    <3>4. Len(x) \in Nat /\ \A k \in 1 .. Len(x) : x[k] \in Lines
      BY <3>3
    <3> DEFINE k == m - at[n] + 1
    <3>5. k \in 1 .. Len(x) /\ at[n] + k - 1 = m
      BY SMTT(40), <2>1, <2>2, <3>2, <3>4 DEF Stands
    <3> HIDE DEF k
    <3> QED BY <3>2, <3>4, <3>5 DEF Stands
  <2> QED BY <2>4, <2>5 DEF Spread
<1> QED BY <1>1, <1>2 DEF TextFile

\* However many lines of it are replaced, the same is seen.
LEMMA SpreadSeen ==
  ASSUME NEW Lines, NEW Values, Language(Lines), Computes(Lines, Values), HookKeepsMeaning(Lines, Values),
         StepCounts = Nat,
         NEW P, TextFile(Lines, P), FitsIn(Decoded(P)), ~AnalysisPanics(Decoded(P)),
         NEW F, LabelsResolve(F), NEW at, Spread(P, F, at), NEW regs \in Starts
  PROVE  Sights(F, regs) = Sights(P, regs)
<1> DEFINE D == 1 .. Len(P) + 1
<1>1. /\ IsSequence(P) /\ LabelsResolve(P) /\ DOMAIN P = 1 .. Len(P) /\ Len(P) \in Nat /\ Laid(P, F, at)
  BY DEF TextFile, IsSequence, Spread
<1>2. Runnable(Lines, F)
  BY SpreadRuns, TextRuns
<1>3. \A n \in DOMAIN P : n \in D /\ n + 1 \in D
  BY <1>1
<1>4. \A n \in DOMAIN P : P[n].op \in LabelBranches => LabelLine(P, P[n].label) \in D
  <2>1. \A n \in DOMAIN P : P[n].op \in LabelBranches => LabelLine(P, P[n].label) \in DOMAIN P
    BY <1>1, LabelsAreFound
  <2> QED BY <1>3, <2>1
<1>5. 1 \in D /\ D \subseteq 1 .. Len(P) + 1
  BY <1>1
<1> HIDE DEF D
<1>6. ASSUME NEW n \in D \cap DOMAIN P PROVE Follow(Lines, Values, P, F, at, D, n)
  <2>1. CASE Kept(P, F, at, n)
    BY <1>1, <1>2, <1>3, <1>4, <2>1, KeptFollows
  <2>2. CASE Expanded(P, F, at, n)
    BY <1>1, <1>2, <1>3, <1>4, <2>2, ExpansionFollows
  <2> QED BY <2>1, <2>2 DEF Spread
<1>7. Meets(Lines, Values, P, F, at, D)
  BY <1>5, <1>6 DEF Meets
<1> QED BY <1>1, <1>2, <1>7, SameSights

(***************************************************************************)
(* Files some of whose blocks GreenThumb has rewritten.                    *)
(***************************************************************************)

\* Running f leads from s to t, and nothing more is seen.
Reaches(f, s, t) == t.seen = s.seen /\ \E k \in Nat : Goes(f, s, k, t)

\* A moment reaches itself.
LEMMA ReachesSelf == \A f, s : Reaches(f, s, s)
BY GoesNowhere DEF Reaches

\* And the next one, if nothing is seen.
LEMMA ReachesNext ==
  \A f, s : s.pc # 0 /\ ExecuteLine(f, s).seen = s.seen => Reaches(f, s, ExecuteLine(f, s))
<1>1. 1 \in Nat
  OBVIOUS
<1> QED BY <1>1, GoesNext DEF Reaches

\* And on from there.
LEMMA ReachesOn ==
  ASSUME NEW f, NEW s, NEW t, NEW w, Reaches(f, s, t), Reaches(f, t, w)
  PROVE  Reaches(f, s, w)
<1>1. PICK n \in Nat : Goes(f, s, n, t)
  BY DEF Reaches
<1>2. PICK m \in Nat : Goes(f, t, m, w)
  BY DEF Reaches
<1>3. t.seen = s.seen /\ w.seen = s.seen
  BY DEF Reaches
<1>4. Goes(f, s, n + m, w) /\ n + m \in Nat
  BY <1>1, <1>2, <1>3, GoesOn
<1> QED BY <1>3, <1>4 DEF Reaches

\* A line that computes goes to the next one.
LEMMA ComputationEffect ==
  ASSUME NEW f, NEW s, s.pc \in DOMAIN f, Computation(f[s.pc]), f[s.pc].op # "best"
  PROVE  ExecuteLine(f, s) = At(s.pc + 1, s.seen, Assign(s.regs, f[s.pc]))
<1> DEFINE line == f[s.pc]
<1>1. line.op \notin {"label", "best"} /\ Exit(line, s.regs) = "on"
  BY DEF Computation, Exit
<1>2. Exit(line, s.regs) = "on" => ExecuteLine(f, s) = At(s.pc + 1, s.seen, Assign(s.regs, line))
  BY <1>1, InstructionEffect
<1> QED BY <1>1, <1>2

\* From line n of P and line m of F, with registers that agree on what is needed, both go
\* straight on to line n2 and line m2, where they agree again.
Carries(Lines, Values, P, F, n, m, n2, m2) ==
  \A seen \in Seq(Names(Lines)), u, v \in States(Values) :
    Agree(u, v, Needs(Decoded(P), Ahead(P, n))) =>
      \E u2, v2 \in States(Values) :
        /\ Reaches(P, At(n, seen, u), At(n2, seen, u2))
        /\ Reaches(F, At(m, seen, v), At(m2, seen, v2))
        /\ Agree(u2, v2, Needs(Decoded(P), Ahead(P, n2)))

\* So they are alike again there.
LEMMA CarriesFollow ==
  ASSUME NEW Lines, NEW Values, NEW P, NEW F, NEW at, NEW D, NEW n \in D, NEW n2 \in D,
         n \in Nat \ {0}, n2 \in Nat, n < n2, at[n2] \in Nat,
         Carries(Lines, Values, P, F, n, at[n], n2, at[n2])
  PROVE  Follow(Lines, Values, P, F, at, D, n)
<1> SUFFICES ASSUME NEW s \in Moments(Lines, Values), NEW t \in Moments(Lines, Values),
                    s.pc = n, Alike(P, at, D, s, t)
             PROVE  \E s2, t2 \in Moments(Lines, Values), k \in Nat \ {0}, l \in Nat :
                      /\ Goes(P, s, k, s2) /\ Goes(F, t, l, t2)
                      /\ Alike(P, at, D, s2, t2)
                      /\ l = 0 => n < s2.pc
  BY DEF Follow
<1>1. s.seen = t.seen /\ t.pc = at[n] /\ Agree(s.regs, t.regs, Needs(Decoded(P), Ahead(P, n)))
  BY DEF Alike
<1>2. /\ s.seen \in Seq(Names(Lines)) /\ s.regs \in States(Values) /\ s = At(n, s.seen, s.regs)
      /\ t.regs \in States(Values) /\ t = At(at[n], s.seen, t.regs)
  BY <1>1, MomentParts
<1>3. PICK u2 \in States(Values), v2 \in States(Values) :
        /\ Reaches(P, s, At(n2, s.seen, u2))
        /\ Reaches(F, t, At(at[n2], s.seen, v2))
        /\ Agree(u2, v2, Needs(Decoded(P), Ahead(P, n2)))
  BY <1>1, <1>2 DEF Carries
<1> DEFINE s2 == At(n2, s.seen, u2)
           t2 == At(at[n2], s.seen, v2)
<1>4. s2 \in Moments(Lines, Values) /\ t2 \in Moments(Lines, Values) /\ s2.pc = n2
  BY <1>2, MomentMade, PartsOfMoment
<1>5. Alike(P, at, D, s2, t2)
  BY <1>3, AlikeMade
<1> HIDE DEF s2, t2
<1>6. PICK k \in Nat : Goes(P, s, k, s2)
  BY <1>3 DEF Reaches, s2
<1>7. PICK l \in Nat : Goes(F, t, l, t2)
  BY <1>3 DEF Reaches, t2
<1>8. k # 0
  <2> SUFFICES ASSUME k = 0 PROVE FALSE
    OBVIOUS
  <2>1. s2 = s
    BY <1>6 DEF Goes
  <2> QED BY <1>4, <2>1
<1> QED BY <1>4, <1>5, <1>6, <1>7, <1>8

\* There are more instructions ahead of a later line.
LEMMA AheadRises ==
  ASSUME NEW f, NEW m \in Nat \ {0}, NEW n \in Nat \ {0}, m <= n
  PROVE  Ahead(f, m) <= Ahead(f, n) /\ Ahead(f, m) \in Nat /\ Ahead(f, n) \in Nat
<1> DEFINE A == Unlabelled(f, m - 1)
           B == Unlabelled(f, n - 1)
<1>1. A \subseteq B
  BY DEF Unlabelled
<1>2. IsFiniteSet(B) /\ Cardinality(B) \in Nat /\ Cardinality(A) \in Nat
  <2>1. m - 1 \in Int /\ n - 1 \in Int
    OBVIOUS
  <2> QED BY <2>1, UnlabelledFinite
<1>3. Cardinality(A) <= Cardinality(B)
  BY <1>1, <1>2, FS_Subset
<1>4. Ahead(f, m) = 1 + Cardinality(A) /\ Ahead(f, n) = 1 + Cardinality(B)
  BY DEF Ahead
<1> HIDE DEF A, B
<1> QED BY <1>2, <1>3, <1>4

InBlock(g, b, i) == g[b].start <= i /\ i < g[b].finish
Within(g, b, i) == g[b].start < i /\ i < g[b].finish

\* The blocks do not overlap, and no boundary lies within one.
LEMMA BlocksApart ==
  ASSUME NEW p, IsProgram(p), NEW boundaries, IsCut(p, boundaries), NEW g, Tiles(p, boundaries, g)
  PROVE  /\ \A b \in DOMAIN g : /\ g[b].start \in Nat \ {0} /\ g[b].finish \in Nat
                                /\ g[b].start < g[b].finish /\ g[b].finish <= Len(p) + 1
                                /\ g[b].finish \in boundaries
         /\ \A b, c \in DOMAIN g : \A i \in Int : InBlock(g, b, i) /\ InBlock(g, c, i) => b = c
         /\ \A b \in DOMAIN g : \A i \in boundaries : ~Within(g, b, i)
<1>1. Len(p) \in Nat /\ boundaries \subseteq Int
  BY DEF IsProgram, IsCut
<1>2. \A b \in DOMAIN g : /\ g[b].start \in Nat \ {0} /\ g[b].finish \in Nat
                          /\ g[b].start < g[b].finish /\ g[b].finish <= Len(p) + 1 /\ b \in Int
                          /\ g[b].finish \in boundaries
  BY SMTT(40), <1>1 DEF Tiles, Positions
<1>3. ASSUME NEW b \in DOMAIN g, NEW i \in boundaries PROVE ~Within(g, b, i)
  <2>1. i <= g[b].start \/ g[b].finish <= i
    BY DEF Tiles
  <2> QED BY <1>1, <1>2, <2>1 DEF Within
<1>4. ASSUME NEW b \in DOMAIN g, NEW c \in DOMAIN g, NEW i \in Int,
             InBlock(g, b, i), InBlock(g, c, i)
      PROVE  b = c
  <2>1. b < c => g[b].finish <= g[c].start
    BY DEF Tiles
  <2>2. c < b => g[c].finish <= g[b].start
    BY DEF Tiles
  <2> QED BY SMTT(40), <1>2, <1>4, <2>1, <2>2 DEF InBlock
<1> QED BY <1>2, <1>3, <1>4

\* What GreenThumb was given of block b, and what it keeps.
IsBest(P, g, b, line) ==
  /\ line.op = "best"
  /\ line.live = NeededAfter(Decoded(P), g[b].finish - 1)
  /\ line.body = [k \in 1 .. g[b].finish - g[b].start |-> P[InstructionLines(P)[g[b].start + k - 1]]]
  /\ line.tag = 0 /\ line.dest = <<>> /\ line.args = <<>>

\* The blocks of W are rewritten: the line of the first instruction of each is the best one,
\* the others are gone, and the labels between them and all other lines are kept.
Rewritten(P, F, at, g, W) ==
  /\ W \subseteq DOMAIN g
  /\ \A b \in W : \A i \in g[b].start .. g[b].finish - 1 : Decoded(P)[i].branch = "none"
  /\ IsSequence(F)
  /\ at \in [1 .. Len(P) + 1 -> Nat \ {0}]
  /\ at[1] = 1 /\ at[Len(P) + 1] = Len(F) + 1
  /\ \A n \in DOMAIN P :
       \/ /\ Kept(P, F, at, n)
          /\ P[n].op = "label" \/ \A b \in W : ~InBlock(g, b, Ahead(P, n))
       \/ /\ P[n].op # "label" /\ at[n + 1] = at[n] + 1
          /\ \E b \in W : Ahead(P, n) = g[b].start /\ IsBest(P, g, b, F[at[n]])
       \/ /\ P[n].op # "label" /\ at[n + 1] = at[n]
          /\ \E b \in W : Within(g, b, Ahead(P, n))

\* The instructions of a block that is rewritten compute.
LEMMA BlockComputes ==
  ASSUME NEW Lines, Language(Lines), NEW P, TextFile(Lines, P),
         NEW boundaries, IsCut(Decoded(P), boundaries), NEW g, Tiles(Decoded(P), boundaries, g),
         NEW F, NEW at, NEW W, Rewritten(P, F, at, g, W),
         NEW b \in W, NEW i \in g[b].start .. g[b].finish - 1
  PROVE  LET n == InstructionLines(P)[i]
         IN  /\ i \in Positions(Decoded(P)) /\ i \in 1 .. Len(InstructionLines(P))
             /\ n \in DOMAIN P /\ n \in Nat \ {0} /\ Ahead(P, n) = i
             /\ P[n] \in Lines /\ P[n].op # "label" /\ P[n].op # "best" /\ Computation(P[n])
<1> DEFINE ls == InstructionLines(P)
           p == Decoded(P)
           n == ls[i]
<1>1. IsSequence(P) /\ IsProgram(p) /\ b \in DOMAIN g /\ \A m \in DOMAIN P : P[m] \in Lines
  BY DecodedIsProgram DEF TextFile, Rewritten
<1>2. /\ g[b].start \in Nat \ {0} /\ g[b].finish \in Nat /\ g[b].finish <= Len(p) + 1
  BY <1>1, BlocksApart
<1>3. Len(p) = Len(ls) /\ Len(p) \in Nat
  BY <1>1, DecodedLines
<1>4. i \in 1 .. Len(ls)
  BY <1>2, <1>3
<1>5. i \in Positions(p)
  BY <1>3, <1>4 DEF Positions
<1>6. n \in DOMAIN P /\ P[n].op # "label" /\ Ahead(P, n) = i
  BY <1>1, <1>4, InstructionsNumbered
<1>7. P[n] \in Lines /\ n \in Nat \ {0}
  BY <1>1, <1>6 DEF TextFile, IsSequence
<1>8. BranchOf(P[n]) = "none"
  <2>1. p[i].branch = BranchOf(P[n])
    BY <1>1, <1>5, DecodedLines
  <2>2. p[i].branch = "none"
    BY DEF Rewritten
  <2> QED BY <2>1, <2>2
<1>9. Computation(P[n])
  BY <1>6, <1>8 DEF BranchOf, Computation
<1>10. P[n].op # "best"
  BY <1>7 DEF Language, IsLine
<1> QED BY <1>4, <1>5, <1>6, <1>7, <1>9, <1>10

\* Rewritten blocks leave the other lines where they belong.
LEMMA RewrittenLaid ==
  ASSUME NEW Lines, NEW P, TextFile(Lines, P), NEW F, NEW at, NEW g, NEW W, Rewritten(P, F, at, g, W)
  PROVE  Laid(P, F, at)
<1>1. /\ DOMAIN P = 1 .. Len(P) /\ Len(P) \in Nat
      /\ \A n \in 1 .. Len(P) + 1 : at[n] \in Nat
  BY DEF TextFile, IsSequence, Rewritten
<1>2. ASSUME NEW n \in DOMAIN P PROVE at[n] <= at[n + 1] /\ (P[n].op = "label" => Kept(P, F, at, n))
  <2>1. at[n] \in Nat /\ at[n + 1] \in Nat
    BY <1>1
  <2>2. at[n + 1] = at[n] \/ at[n + 1] = at[n] + 1
    BY DEF Rewritten, Kept
  <2>3. P[n].op = "label" => Kept(P, F, at, n)
    BY DEF Rewritten
  <2> QED BY <2>1, <2>2, <2>3
<1> QED BY <1>2 DEF Rewritten, Laid

\* A line of such a file is one that is kept, or the best one of a block.
LEMMA RewrittenLines ==
  ASSUME NEW Lines, NEW P, TextFile(Lines, P), NEW F, NEW at, NEW g, NEW W, Rewritten(P, F, at, g, W),
         NEW m \in DOMAIN F
  PROVE  \E n \in DOMAIN P : /\ m = at[n]
                             /\ (Kept(P, F, at, n) \/ \E b \in W : IsBest(P, g, b, F[m]))
<1>1. /\ IsSequence(P) /\ DOMAIN P = 1 .. Len(P) /\ Len(P) \in Nat /\ Laid(P, F, at)
      /\ \A n \in 1 .. Len(P) + 1 : at[n] \in Nat
  <2>1. Laid(P, F, at)
    BY RewrittenLaid
  <2> QED BY <2>1 DEF TextFile, IsSequence, Rewritten
<1>2. PICK n \in DOMAIN P : m \in at[n] .. at[n + 1] - 1
  BY <1>1, LaidInside
<1>3. at[n] \in Nat /\ at[n + 1] \in Nat /\ at[n + 1] # at[n]
  BY <1>1, <1>2
<1>4. CASE Kept(P, F, at, n)
  <2>1. m = at[n]
    BY <1>2, <1>3, <1>4 DEF Kept
  <2> QED BY <1>4, <2>1
<1>5. CASE at[n + 1] = at[n] + 1 /\ \E b \in W : IsBest(P, g, b, F[at[n]])
  <2>1. m = at[n]
    BY <1>2, <1>3, <1>5
  <2> QED BY <1>5, <2>1
<1> QED BY <1>3, <1>4, <1>5 DEF Rewritten

\* Its labels are those of P.
LEMMA RewrittenLabels ==
  ASSUME NEW Lines, NEW P, TextFile(Lines, P), NEW F, NEW at, NEW g, NEW W, Rewritten(P, F, at, g, W)
  PROVE  LabelsResolve(F)
<1>1. LabelsResolve(P) /\ DOMAIN P = 1 .. Len(P) /\ Len(P) \in Nat /\ DOMAIN F = 1 .. Len(F) /\ Len(F) \in Nat
  BY DEF TextFile, IsSequence, Rewritten
<1>2. ASSUME NEW m \in DOMAIN F, F[m].op # "best" PROVE \E n \in DOMAIN P : m = at[n] /\ F[m] = P[n]
  <2>1. PICK n \in DOMAIN P : /\ m = at[n]
                             /\ (Kept(P, F, at, n) \/ \E b \in W : IsBest(P, g, b, F[m]))
    BY RewrittenLines
  <2>2. Kept(P, F, at, n)
    BY <1>2, <2>1 DEF IsBest
  <2> QED BY <2>1, <2>2 DEF Kept
<1>3. ASSUME NEW k \in LabelsIn(F), NEW m \in LabelsIn(F), F[k].label = F[m].label PROVE k = m
  <2>1. /\ k \in DOMAIN F /\ F[k].op = "label" /\ F[k].op # "best"
        /\ m \in DOMAIN F /\ F[m].op = "label" /\ F[m].op # "best"
    BY DEF LabelsIn
  <2>2. PICK i \in DOMAIN P : k = at[i] /\ F[k] = P[i]
    BY <1>2, <2>1
  <2>3. PICK j \in DOMAIN P : m = at[j] /\ F[m] = P[j]
    BY <1>2, <2>1
  <2>4. i \in LabelsIn(P) /\ j \in LabelsIn(P)
    BY <2>1, <2>2, <2>3 DEF LabelsIn
  <2>5. i = j
    BY <1>1, <1>3, <2>2, <2>3, <2>4 DEF LabelsResolve
  <2> QED BY <2>2, <2>3, <2>5
<1>4. ASSUME NEW m \in DOMAIN F, F[m].op \in LabelBranches
      PROVE  \E k \in LabelsIn(F) : F[k].label = F[m].label
  <2>1. F[m].op # "best"
    BY <1>4, OperationsAssumption
  <2>2. PICK n \in DOMAIN P : m = at[n] /\ F[m] = P[n]
    BY <1>2, <2>1
  <2>3. PICK l \in LabelsIn(P) : P[l].label = F[m].label
    BY <1>1, <1>4, <2>2 DEF LabelsResolve
  <2>4. l \in DOMAIN P /\ P[l].op = "label"
    BY DEF LabelsIn
  <2>5. Laid(P, F, at) /\ IsSequence(P)
    BY RewrittenLaid DEF TextFile
  <2>6. Kept(P, F, at, l)
    BY <2>4, <2>5 DEF Laid
  <2>7. at[l] \in DOMAIN F
    <3>1. l \in 1 .. Len(P) + 1 /\ l + 1 \in 1 .. Len(P) + 1
      BY <1>1, <2>4
    <3>2. at[l] \in 1 .. Len(F) + 1 /\ at[l + 1] \in 1 .. Len(F) + 1
      BY <2>5, <3>1, LaidInside
    <3> QED BY SMTT(40), <1>1, <2>6, <3>2 DEF Kept
  <2>8. F[at[l]].op = "label" /\ F[at[l]].label = F[m].label
    BY <2>3, <2>4, <2>6 DEF Kept
  <2>9. at[l] \in LabelsIn(F)
    BY <2>7, <2>8 DEF LabelsIn
  <2> QED BY <2>8, <2>9
<1> QED BY <1>3, <1>4 DEF LabelsResolve

\* And the file runs.
LEMMA RewrittenRuns ==
  ASSUME NEW Lines, Language(Lines), NEW P, TextFile(Lines, P),
         NEW boundaries, IsCut(Decoded(P), boundaries), NEW g, Tiles(Decoded(P), boundaries, g),
         NEW F, NEW at, NEW W, Rewritten(P, F, at, g, W)
  PROVE  Runnable(Lines, F)
<1>1. DOMAIN F = 1 .. Len(F) /\ Len(F) \in Nat
  BY DEF Rewritten, IsSequence
<1>2. LabelsResolve(F)
  BY RewrittenLabels
<1>3. ASSUME NEW m \in DOMAIN F PROVE Runs(Lines, F[m])
  <2>1. PICK n \in DOMAIN P : /\ m = at[n]
                             /\ (Kept(P, F, at, n) \/ \E b \in W : IsBest(P, g, b, F[m]))
    BY RewrittenLines
  <2>2. CASE Kept(P, F, at, n)
    BY <2>1, <2>2 DEF Kept, TextFile, Runs
  <2>3. CASE \E b \in W : IsBest(P, g, b, F[m])
    <3>2. PICK b \in W : IsBest(P, g, b, F[m])
      BY <2>3
    <3> DEFINE line == F[m]
               len == g[b].finish - g[b].start
    <3>3. len \in Nat
      <4>1. b \in DOMAIN g /\ IsProgram(Decoded(P))
        BY DecodedIsProgram DEF Rewritten
      <4> QED BY <4>1, BlocksApart
    <3>4. \A k \in 1 .. len : LET x == P[InstructionLines(P)[g[b].start + k - 1]]
                              IN  x \in Lines
      <4> SUFFICES ASSUME NEW k \in 1 .. len
                   PROVE  LET x == P[InstructionLines(P)[g[b].start + k - 1]]
                          IN  x \in Lines
        OBVIOUS
      <4>1. g[b].start \in Nat /\ g[b].finish \in Nat
        <5>1. b \in DOMAIN g /\ IsProgram(Decoded(P))
          BY DecodedIsProgram DEF Rewritten
        <5> QED BY <5>1, BlocksApart
      <4>2. g[b].start + k - 1 \in g[b].start .. g[b].finish - 1
        BY <4>1
      <4> QED BY <4>2, BlockComputes
    <3>5. line.body \in [1 .. len -> Lines]
      BY <3>2, <3>4 DEF IsBest
    <3>6. line.body \in Seq(Lines) /\ DOMAIN line.body = 1 .. len
      <4> HIDE DEF len, line
      <4> QED BY <3>3, <3>5
    <3>7. line.op = "best" /\ line.live \subseteq Registers
      BY <3>2 DEF IsBest, NeededAfter
    <3> QED BY <3>6, <3>7 DEF Runs
  <2> QED BY <2>1, <2>2, <2>3
<1> QED BY <1>1, <1>2, <1>3 DEF Runnable

\* A function on 1 .. n is a sequence.
LEMMA FunctionIsSequence ==
  ASSUME NEW S, NEW n \in Nat, NEW f \in [1 .. n -> S]
  PROVE  f \in Seq(S) /\ Len(f) = n
OBVIOUS

\* From registers that agree on what is needed before an instruction come registers that
\* agree on what is needed behind it.
LEMMA AgreeOn ==
  ASSUME NEW Lines, NEW Values, Language(Lines), Computes(Lines, Values),
         NEW p, IsProgram(p), NEW i \in Positions(p), NEW line \in Lines, Computation(line),
         InstructionReads(p[i]) = ToSet(line.args), InstructionWrites(p[i]) = Writes(line),
         NEW u \in States(Values), NEW v \in States(Values), Agree(u, v, Needs(p, i))
  PROVE  /\ Agree(Assign(u, line), Assign(v, line), NeededAfter(p, i))
         /\ Agree(Assign(u, line), Assign(v, line), Needs(p, i + 1))
<1>1. /\ ToSet(line.args) \subseteq Needs(p, i)
      /\ NeededAfter(p, i) \ Writes(line) \subseteq Needs(p, i)
      /\ Needs(p, i + 1) \subseteq NeededAfter(p, i)
  BY NeedsFlow
<1>2. Agree(u, v, ToSet(line.args))
  <2>1. \A r \in Needs(p, i) : u[r] = v[r]
    BY DEF Agree
  <2> DEFINE reads == ToSet(line.args)
             needs == Needs(p, i)
  <2>2. reads \subseteq needs
    BY <1>1
  <2> HIDE DEF reads, needs
  <2>3. Agree(u, v, reads)
    BY <2>1, <2>2 DEF Agree, needs
  <2> QED BY <2>3 DEF reads
<1>3. ASSUME NEW r \in NeededAfter(p, i) PROVE Assign(u, line)[r] = Assign(v, line)[r]
  <2>1. r \in Registers
    BY DEF NeededAfter
  <2>2. r \in Writes(line) \/ u[r] = v[r]
    BY <1>1 DEF Agree
  <2> QED BY <1>2, <2>1, <2>2, AssignAgrees
<1> QED BY <1>1, <1>3 DEF Agree

\* The lines of a block: from its first instruction to its last one.
LEMMA BlockLines ==
  ASSUME NEW Lines, Language(Lines), NEW P, TextFile(Lines, P),
         NEW boundaries, IsCut(Decoded(P), boundaries), NEW g, Tiles(Decoded(P), boundaries, g),
         NEW F, NEW at, NEW W, Rewritten(P, F, at, g, W), NEW b \in W
  PROVE  LET first == InstructionLines(P)[g[b].start]
             last == InstructionLines(P)[g[b].finish - 1]
         IN  /\ first \in DOMAIN P /\ last \in DOMAIN P /\ first \in Nat \ {0} /\ last \in Nat \ {0}
             /\ first <= last
             /\ Ahead(P, first) = g[b].start /\ Ahead(P, last + 1) = g[b].finish
             /\ \A n \in first .. last : n \in DOMAIN P /\ InBlock(g, b, Ahead(P, n))
             /\ \A n \in first + 1 .. last : Within(g, b, Ahead(P, n))
             /\ at[first + 1] = at[first] + 1 /\ IsBest(P, g, b, F[at[first]])
             /\ \A n \in first + 1 .. last :
                  IF P[n].op = "label" THEN Kept(P, F, at, n) ELSE at[n + 1] = at[n]
<1> DEFINE ls == InstructionLines(P)
           p == Decoded(P)
           s == g[b].start
           e == g[b].finish
           first == ls[s]
           last == ls[e - 1]
<1>1. /\ IsSequence(P) /\ DOMAIN P = 1 .. Len(P) /\ Len(P) \in Nat /\ W \subseteq DOMAIN g
      /\ IsProgram(p)
  BY DecodedIsProgram DEF TextFile, IsSequence, Rewritten
<1>2. /\ s \in Nat \ {0} /\ e \in Nat /\ s < e /\ s \in s .. e - 1 /\ e - 1 \in s .. e - 1
  BY <1>1, BlocksApart
<1>3. /\ first \in DOMAIN P /\ first \in Nat \ {0} /\ Ahead(P, first) = s /\ P[first].op # "label"
      /\ last \in DOMAIN P /\ last \in Nat \ {0} /\ Ahead(P, last) = e - 1 /\ P[last].op # "label"
      /\ s \in 1 .. Len(ls) /\ e - 1 \in 1 .. Len(ls)
  <2>1. ASSUME NEW i \in g[b].start .. g[b].finish - 1
        PROVE  /\ ls[i] \in DOMAIN P /\ ls[i] \in Nat \ {0} /\ Ahead(P, ls[i]) = i
               /\ P[ls[i]].op # "label" /\ i \in 1 .. Len(ls)
    BY BlockComputes
  <2> HIDE DEF ls
  <2> QED BY <1>2, <2>1
<1>4. first <= last
  <2>1. s = e - 1 \/ s < e - 1
    BY <1>2
  <2>2. s < e - 1 => first < last
    BY <1>1, <1>3, InstructionsNumbered
  <2> QED BY <1>3, <2>1, <2>2
<1> HIDE DEF first, last, s, e
<1>5. Ahead(P, last + 1) = e
  <2>1. Ahead(P, last + 1) = (e - 1) + 1
    BY ZenonT(40), <1>3, AheadGoes
  <2> QED BY <1>2, <2>1
<1>6. Ahead(P, first + 1) = s + 1
  BY <1>3, AheadGoes
<1>7. \A n \in first .. last : n \in DOMAIN P /\ n \in Nat \ {0} /\ Ahead(P, n) \in Nat /\ s <= Ahead(P, n) /\ Ahead(P, n) < e
  <2> SUFFICES ASSUME NEW n \in first .. last
               PROVE  n \in DOMAIN P /\ n \in Nat \ {0} /\ Ahead(P, n) \in Nat /\ s <= Ahead(P, n) /\ Ahead(P, n) < e
    OBVIOUS
  <2>1. n \in Nat \ {0} /\ first <= n /\ n <= last /\ n \in DOMAIN P
    BY <1>1, <1>3
  <2>2. Ahead(P, first) <= Ahead(P, n) /\ Ahead(P, n) <= Ahead(P, last) /\ Ahead(P, n) \in Nat
    BY <1>3, <2>1, AheadRises
  <2> QED BY <1>2, <1>3, <2>1, <2>2
<1>8. \A n \in first + 1 .. last : n \in first .. last /\ s < Ahead(P, n)
  <2> SUFFICES ASSUME NEW n \in first + 1 .. last PROVE n \in first .. last /\ s < Ahead(P, n)
    OBVIOUS
  <2>1. n \in Nat \ {0} /\ first + 1 \in Nat \ {0} /\ first + 1 <= n /\ n \in first .. last
    BY <1>3
  <2>2. Ahead(P, first + 1) <= Ahead(P, n) /\ Ahead(P, n) \in Nat
    BY <2>1, AheadRises
  <2> QED BY <1>2, <1>6, <2>1, <2>2
<1>9. ASSUME NEW n \in first .. last, NEW c \in W, InBlock(g, c, Ahead(P, n)) PROVE c = b
  <2>1. InBlock(g, b, Ahead(P, n)) /\ Ahead(P, n) \in Int
    BY <1>7 DEF InBlock, s, e
  <2> QED BY <1>1, <1>9, <2>1, BlocksApart
<1>10. \A c \in W : /\ g[c].start \in Int /\ g[c].finish \in Int /\ g[c].start < g[c].finish
                    /\ \A i \in Int : i = g[c].start \/ Within(g, c, i) => InBlock(g, c, i)
  <2>1. \A c \in W : g[c].start \in Int /\ g[c].finish \in Int /\ g[c].start < g[c].finish
    BY <1>1, BlocksApart
  <2> QED BY <2>1 DEF Within, InBlock
<1>11. at[first + 1] = at[first] + 1 /\ IsBest(P, g, b, F[at[first]])
  <2>1. first \in first .. last
    BY <1>3, <1>4
  <2>2. InBlock(g, b, Ahead(P, first)) /\ ~Within(g, b, Ahead(P, first))
    BY <1>2, <1>3 DEF InBlock, Within, s, e
  <2>3. ~ \E c \in W : Within(g, c, Ahead(P, first))
    BY <1>7, <1>9, <1>10, <2>1, <2>2
  <2>4. at[first + 1] = at[first] + 1 /\ \E c \in W : Ahead(P, first) = g[c].start /\ IsBest(P, g, c, F[at[first]])
    BY <1>3, <2>2, <2>3 DEF Rewritten
  <2>5. \A c \in W : Ahead(P, first) = g[c].start => c = b
    BY <1>7, <1>9, <1>10, <2>1
  <2> QED BY <2>4, <2>5
<1>12. ASSUME NEW n \in first + 1 .. last
       PROVE  IF P[n].op = "label" THEN Kept(P, F, at, n) ELSE at[n + 1] = at[n]
  <2>1. CASE P[n].op = "label"
    BY <1>7, <1>8, <2>1 DEF Rewritten
  <2>2. CASE P[n].op # "label"
    <3>1. n \in first .. last /\ n \in DOMAIN P /\ InBlock(g, b, Ahead(P, n)) /\ Ahead(P, n) # s
      BY <1>2, <1>7, <1>8 DEF InBlock, s, e
    <3>2. ~ \E c \in W : Ahead(P, n) = g[c].start
      BY <1>7, <1>9, <1>10, <3>1 DEF s
    <3>3. at[n + 1] = at[n]
      BY <2>2, <3>1, <3>2 DEF Rewritten
    <3> QED BY <2>2, <3>3
  <2> QED BY <2>1, <2>2
<1> QED BY <1>3, <1>4, <1>5, <1>7, <1>8, <1>11, <1>12 DEF first, last, s, e, InBlock, Within

\* A block goes through its instructions.
LEMMA BlockGoes ==
  ASSUME NEW Lines, NEW Values, Language(Lines), Computes(Lines, Values), NEW P, TextFile(Lines, P),
         NEW boundaries, IsCut(Decoded(P), boundaries), NEW g, Tiles(Decoded(P), boundaries, g),
         NEW F, NEW at, NEW W, Rewritten(P, F, at, g, W), NEW b \in W,
         NEW body, body = [k \in 1 .. g[b].finish - g[b].start |-> P[InstructionLines(P)[g[b].start + k - 1]]],
         NEW seen \in Seq(Names(Lines)), NEW u \in States(Values)
  PROVE  LET first == InstructionLines(P)[g[b].start]
             last == InstructionLines(P)[g[b].finish - 1]
         IN  /\ AssignAll(u, body) \in States(Values)
             /\ Reaches(P, At(first, seen, u), At(last + 1, seen, AssignAll(u, body)))
<1> DEFINE ls == InstructionLines(P)
           s == g[b].start
           e == g[b].finish
           first == ls[s]
           last == ls[e - 1]
           len == e - s
<1>1. /\ DOMAIN P = 1 .. Len(P) /\ Len(P) \in Nat /\ b \in DOMAIN g /\ IsProgram(Decoded(P)) /\ IsSequence(P)
  BY DecodedIsProgram DEF TextFile, IsSequence, Rewritten
<1>2. /\ s \in Nat \ {0} /\ e \in Nat /\ s < e
  BY <1>1, BlocksApart
<1>3. /\ first \in DOMAIN P /\ last \in DOMAIN P /\ first \in Nat \ {0} /\ last \in Nat \ {0}
      /\ first <= last
      /\ Ahead(P, first) = s /\ Ahead(P, last + 1) = e
      /\ \A n \in first .. last : n \in DOMAIN P /\ InBlock(g, b, Ahead(P, n))
  BY BlockLines
<1>4. \A k \in 1 .. len : /\ body[k] = P[ls[s + k - 1]] /\ body[k] \in Lines /\ Computation(body[k])
                          /\ s + k - 1 \in s .. e - 1
  <2> SUFFICES ASSUME NEW k \in 1 .. len
               PROVE  /\ body[k] = P[ls[s + k - 1]] /\ body[k] \in Lines /\ Computation(body[k])
                      /\ s + k - 1 \in s .. e - 1
    OBVIOUS
  <2>1. s + k - 1 \in s .. e - 1
    <3>1. k \in Nat /\ k >= 1 /\ k <= e - s
      BY <1>2
    <3> HIDE DEF s, e
    <3> QED BY ONLY <1>2, <3>1
  <2>2. P[ls[s + k - 1]] \in Lines /\ Computation(P[ls[s + k - 1]])
    BY <2>1, BlockComputes
  <2>3. body[k] = P[ls[s + k - 1]]
    OBVIOUS
  <2> QED BY <2>1, <2>2, <2>3
<1>5. body \in Seq(Lines) /\ Len(body) = len /\ \A k \in DOMAIN body : Computation(body[k])
  <2>1. len \in Nat /\ DOMAIN body = 1 .. len /\ body = [k \in 1 .. len |-> body[k]]
    BY <1>2
  <2>2. \A k \in 1 .. len : body[k] \in Lines /\ Computation(body[k])
    BY <1>4
  <2> HIDE DEF len, s, e
  <2>3. body \in [1 .. len -> Lines]
    BY <2>1, <2>2
  <2>4. body \in Seq(Lines)
    BY <2>1, <2>3, FunctionIsSequence
  <2>5. Len(body) = len
    BY <2>1, <2>3, FunctionIsSequence
  <2> QED BY <2>1, <2>2, <2>4, <2>5
<1> HIDE DEF first, last, s, e, len
<1>6. PICK after \in [0 .. len -> States(Values)] : Assigns(after, u, body) /\ AssignAll(u, body) = after[len]
  <2>1. \E after \in [0 .. Len(body) -> States(Values)] :
          Assigns(after, u, body) /\ AssignAll(u, body) = after[Len(body)]
    BY <1>5, AssignAllGoes, ZenonT(40)
  <2> QED BY ONLY <1>5, <2>1
<1>7. len \in Nat /\ len = e - s
  BY <1>2 DEF len
<1> DEFINE start == At(first, seen, u)
           moment(n) == At(n, seen, after[Ahead(P, n) - s])
           N == last + 1 - first
           Good == {j \in 0 .. N : Reaches(P, start, moment(first + j))}
<1>8. N \in Nat
  BY <1>3
<1>9. 0 \in Good
  <2>1. moment(first + 0) = start
    <3>1. first + 0 = first /\ Ahead(P, first) - s = 0 /\ after[0] = u
      BY <1>2, <1>3, <1>6 DEF Assigns
    <3> QED BY <3>1
  <2> QED BY <1>8, <2>1, ReachesSelf
<1>10. ASSUME NEW j \in 0 .. N - 1, j \in Good PROVE j + 1 \in Good
  <2> DEFINE n == first + j
             i == Ahead(P, n)
             m == moment(n)
  <2>1. n \in first .. last /\ first + (j + 1) = n + 1 /\ j + 1 \in 0 .. N /\ n \in Nat \ {0}
    <3>1. \A a, z \in Nat \ {0} : a <= z => \A k \in 0 .. (z + 1 - a) - 1 :
            /\ a + k \in a .. z /\ a + (k + 1) = (a + k) + 1 /\ k + 1 \in 0 .. z + 1 - a
            /\ a + k \in Nat \ {0}
      OBVIOUS
    <3>2. first \in Nat \ {0} /\ last \in Nat \ {0} /\ first <= last
      BY <1>3
    <3> HIDE DEF m, moment, Good
    <3> QED BY <3>1, <3>2
  <2>2. n \in DOMAIN P /\ s <= i /\ i < e /\ i \in Nat
    <3>1. n \in DOMAIN P /\ InBlock(g, b, i)
      BY <1>3, <2>1
    <3>2. i \in Nat
      BY <2>1, AheadGoes
    <3> QED BY <3>1, <3>2 DEF InBlock, s, e
  <2>3. Reaches(P, start, m)
    BY <1>10
  <2> HIDE DEF n, i
  <2>4. i - s \in 0 .. len - 1 /\ i - s \in 0 .. len
    BY <1>2, <1>7, <2>2
  <2> DEFINE regs == after[i - s]
  <2>5. regs \in States(Values)
    BY <1>6, <2>4
  <2>6. m = At(n, seen, regs) /\ m \in Moments(Lines, Values) /\ m.pc = n /\ m.seen = seen /\ m.regs = regs
    <3>1. m = At(n, seen, regs)
      BY DEF i
    <3> HIDE DEF m, regs
    <3> QED BY <2>1, <2>5, <3>1, MomentMade, PartsOfMoment
  <2>7. ExecuteLine(P, m) = moment(n + 1)
    <3>1. CASE P[n].op = "label"
      <4>1. Ahead(P, n + 1) = i
        BY <2>1, <3>1, AheadGoes DEF i
      <4>2. ExecuteLine(P, m) = At(n + 1, seen, regs)
        <5> HIDE DEF m, regs
        <5> QED BY <2>2, <2>6, <3>1, LabelEffect
      <4> QED BY <4>1, <4>2
    <3>2. CASE P[n].op # "label"
      <4>1. Ahead(P, n + 1) = i + 1 /\ ls[i] = n
        BY <1>1, <2>1, <2>2, <3>2, AheadGoes, InstructionsNumbered DEF i
      <4> DEFINE k == (i - s) + 1
      <4>2. k \in 1 .. len /\ k - 1 = i - s /\ s + k - 1 = i /\ (i + 1) - s = k
        BY <1>2, <1>7, <2>2, <2>4
      <4> HIDE DEF k
      <4>3. body[k] = P[n] /\ P[n] \in Lines /\ Computation(P[n])
        BY <1>4, <4>1, <4>2
      <4>4. P[n].op # "best"
        BY <4>3 DEF Language, IsLine
      <4>5. ExecuteLine(P, m) = At(n + 1, seen, Assign(regs, P[n]))
        <5> HIDE DEF m, regs
        <5>1. P[m.pc] = P[n] /\ m.pc \in DOMAIN P
          BY <2>2, <2>6
        <5>2. Computation(P[m.pc]) /\ P[m.pc].op # "best"
          BY <4>3, <4>4, <5>1
        <5>3. ExecuteLine(P, m) = At(m.pc + 1, m.seen, Assign(m.regs, P[m.pc]))
          BY <2>6, <5>1, <5>2, ComputationEffect
        <5> QED BY <2>6, <5>1, <5>3
      <4>6. after[k] = Assign(regs, P[n])
        BY <1>5, <1>6, <4>2, <4>3 DEF Assigns
      <4> QED BY <4>1, <4>2, <4>5, <4>6
    <3> QED BY <3>1, <3>2
  <2>8. Reaches(P, m, moment(n + 1))
    <3>1. m.pc # 0 /\ moment(n + 1).seen = seen
      BY <2>1, <2>6, PartsOfMoment
    <3> HIDE DEF m, moment
    <3> QED BY <2>6, <2>7, <3>1, ReachesNext
  <2>9. Reaches(P, start, moment(n + 1))
    <3> HIDE DEF m, start, moment
    <3> QED BY <2>3, <2>8, ReachesOn
  <2> QED BY <2>1, <2>9
<1>11. Reaches(P, start, moment(last + 1))
  <2> HIDE DEF Good, N
  <2>1. 0 .. N \subseteq Good
    BY <1>8, <1>9, <1>10, Counting
  <2>2. Reaches(P, start, moment(first + N))
    BY <1>8, <2>1 DEF Good
  <2>3. first + N = last + 1
    <3>1. \A a, z \in Nat : a + (z + 1 - a) = z + 1
      OBVIOUS
    <3>2. first \in Nat /\ last \in Nat
      BY <1>3
    <3> QED BY ONLY <3>1, <3>2 DEF N
  <2> QED BY <2>2, <2>3
<1>12. Ahead(P, last + 1) - s = len /\ after[len] \in States(Values)
  BY <1>3, <1>6, <1>7
<1> QED BY <1>6, <1>11, <1>12 DEF first, last, s, e

\* What a block leaves in the registers that are needed behind it depends on those that are
\* needed before it.
LEMMA BodiesAgree ==
  ASSUME NEW Lines, NEW Values, Language(Lines), Computes(Lines, Values), NEW P, TextFile(Lines, P),
         NEW boundaries, IsCut(Decoded(P), boundaries), NEW g, Tiles(Decoded(P), boundaries, g),
         NEW F, NEW at, NEW W, Rewritten(P, F, at, g, W), NEW b \in W,
         NEW body, body = [k \in 1 .. g[b].finish - g[b].start |-> P[InstructionLines(P)[g[b].start + k - 1]]],
         NEW u \in States(Values), NEW v \in States(Values),
         Agree(u, v, Needs(Decoded(P), g[b].start))
  PROVE  Agree(AssignAll(u, body), AssignAll(v, body), NeededAfter(Decoded(P), g[b].finish - 1))
<1> DEFINE ls == InstructionLines(P)
           p == Decoded(P)
           s == g[b].start
           e == g[b].finish
           len == e - s
<1>1. b \in DOMAIN g /\ IsProgram(p) /\ IsSequence(P) /\ \A m \in DOMAIN P : P[m] \in Lines
  BY DecodedIsProgram DEF TextFile, IsSequence, Rewritten
<1>2. /\ s \in Nat \ {0} /\ e \in Nat /\ s < e
  BY <1>1, BlocksApart
<1>4. \A k \in 1 .. len : LET i == s + k - 1
                          IN  /\ body[k] \in Lines /\ Computation(body[k]) /\ i \in Positions(p)
                              /\ InstructionReads(p[i]) = ToSet(body[k].args)
                              /\ InstructionWrites(p[i]) = Writes(body[k])
  <2> SUFFICES ASSUME NEW k \in 1 .. len
               PROVE  LET i == s + k - 1
                      IN  /\ body[k] \in Lines /\ Computation(body[k]) /\ i \in Positions(p)
                          /\ InstructionReads(p[i]) = ToSet(body[k].args)
                          /\ InstructionWrites(p[i]) = Writes(body[k])
    OBVIOUS
  <2> DEFINE i == s + k - 1
  <2>1. i \in s .. e - 1
    BY SMTT(40), <1>2
  <2>2. P[ls[i]] \in Lines /\ Computation(P[ls[i]]) /\ i \in Positions(p)
    BY <2>1, BlockComputes
  <2>3. InstructionReads(p[i]) = ToSet(P[ls[i]].args) /\ InstructionWrites(p[i]) = Writes(P[ls[i]])
    BY <1>1, <2>2, DecodedLines
  <2>4. body[k] = P[ls[i]]
    OBVIOUS
  <2> QED BY <2>2, <2>3, <2>4
<1>5. body \in Seq(Lines) /\ Len(body) = len /\ \A k \in DOMAIN body : Computation(body[k])
  <2>1. len \in Nat /\ DOMAIN body = 1 .. len /\ body = [k \in 1 .. len |-> body[k]]
    BY <1>2
  <2>2. \A k \in 1 .. len : body[k] \in Lines /\ Computation(body[k])
    BY <1>4
  <2> HIDE DEF len, s, e
  <2>3. body \in [1 .. len -> Lines]
    BY <2>1, <2>2
  <2>4. body \in Seq(Lines)
    BY <2>1, <2>3, FunctionIsSequence
  <2>5. Len(body) = len
    BY <2>1, <2>3, FunctionIsSequence
  <2> QED BY <2>1, <2>2, <2>4, <2>5
<1>6. PICK au \in [0 .. Len(body) -> States(Values)] : Assigns(au, u, body) /\ AssignAll(u, body) = au[Len(body)]
  <2>1. \E after \in [0 .. Len(body) -> States(Values)] :
          Assigns(after, u, body) /\ AssignAll(u, body) = after[Len(body)]
    BY <1>5, AssignAllGoes, ZenonT(40)
  <2> QED BY ONLY <2>1
<1>7. PICK av \in [0 .. Len(body) -> States(Values)] : Assigns(av, v, body) /\ AssignAll(v, body) = av[Len(body)]
  <2>1. \E after \in [0 .. Len(body) -> States(Values)] :
          Assigns(after, v, body) /\ AssignAll(v, body) = after[Len(body)]
    BY <1>5, AssignAllGoes, ZenonT(40)
  <2> QED BY ONLY <2>1
<1>8. len \in Nat \ {0} /\ len = e - s /\ Agree(u, v, Needs(p, s))
  <2>1. Agree(u, v, Needs(p, s))
    OBVIOUS
  <2>2. \A x, y \in Nat : x < y => y - x \in Nat \ {0}
    OBVIOUS
  <2>3. s \in Nat /\ e \in Nat /\ s < e /\ len = e - s
    BY ONLY <1>2
  <2> HIDE DEF len, s, e
  <2> QED BY <2>1, <2>2, <2>3
<1>9. /\ au[0] = u /\ av[0] = v
      /\ \A k \in 0 .. len : au[k] \in States(Values) /\ av[k] \in States(Values)
      /\ \A k \in 1 .. len : au[k] = Assign(au[k - 1], body[k]) /\ av[k] = Assign(av[k - 1], body[k])
      /\ AssignAll(u, body) = au[len] /\ AssignAll(v, body) = av[len]
  BY <1>5, <1>6, <1>7 DEF Assigns
<1> HIDE DEF s, e, len, p
<1>10. ASSUME NEW k \in 0 .. len - 1, Agree(au[k], av[k], Needs(p, s + k))
       PROVE  /\ Agree(au[k + 1], av[k + 1], NeededAfter(p, s + k))
              /\ Agree(au[k + 1], av[k + 1], Needs(p, s + (k + 1)))
  <2> DEFINE line == body[k + 1]
             i == s + k
  <2>1. k + 1 \in 1 .. len /\ s + (k + 1) - 1 = i /\ k \in 0 .. len /\ (k + 1) - 1 = k /\ s + (k + 1) = i + 1
    <3>1. \A a, m \in Nat : \A j \in 0 .. m - 1 :
            /\ j + 1 \in 1 .. m /\ a + (j + 1) - 1 = a + j /\ j \in 0 .. m /\ (j + 1) - 1 = j
            /\ a + (j + 1) = (a + j) + 1
      BY SMTT(40)
    <3>2. s \in Nat /\ len \in Nat /\ k \in 0 .. len - 1
      BY <1>2, <1>8
    <3> QED BY ONLY <3>1, <3>2
  <2>2. /\ line \in Lines /\ Computation(line) /\ i \in Positions(p)
        /\ InstructionReads(p[i]) = ToSet(line.args) /\ InstructionWrites(p[i]) = Writes(line)
    BY <1>4, <2>1
  <2>3. au[k] \in States(Values) /\ av[k] \in States(Values)
    BY <1>9, <2>1
  <2>4. au[k + 1] = Assign(au[k], line) /\ av[k + 1] = Assign(av[k], line)
    BY ZenonT(40), <1>9, <2>1
  <2> HIDE DEF line, i
  <2>5. Agree(au[k], av[k], Needs(p, i))
    BY <1>10 DEF i
  <2>6. /\ Agree(Assign(au[k], line), Assign(av[k], line), NeededAfter(p, i))
        /\ Agree(Assign(au[k], line), Assign(av[k], line), Needs(p, i + 1))
    BY <1>1, <2>2, <2>3, <2>5, AgreeOn
  <2> QED BY <2>1, <2>4, <2>6 DEF i
<1> DEFINE Good == {k \in 0 .. len - 1 : Agree(au[k], av[k], Needs(p, s + k))}
<1>11. 0 \in Good
  BY <1>2, <1>8, <1>9
<1>12. ASSUME NEW k \in 0 .. (len - 1) - 1, k \in Good PROVE k + 1 \in Good
  <2>1. k \in 0 .. len - 1 /\ k + 1 \in 0 .. len - 1
    BY <1>8
  <2> QED BY <1>10, <1>12, <2>1
<1>13. len - 1 \in Good
  <2> HIDE DEF Good
  <2>1. len - 1 \in Nat
    BY <1>8
  <2>2. 0 .. len - 1 \subseteq Good
    BY <1>11, <1>12, <2>1, Counting
  <2> QED BY <2>1, <2>2
<1>14. Agree(au[(len - 1) + 1], av[(len - 1) + 1], NeededAfter(p, s + (len - 1)))
  BY <1>10, <1>13
<1>15. (len - 1) + 1 = len /\ s + (len - 1) = e - 1
  BY <1>2, <1>8
<1> QED BY <1>9, <1>14, <1>15 DEF p, e

\* The best line goes through the block at once, and then come the labels that were in it.
LEMMA BestGoes ==
  ASSUME NEW Lines, NEW Values, Language(Lines), Computes(Lines, Values), NEW P, TextFile(Lines, P),
         NEW boundaries, IsCut(Decoded(P), boundaries), NEW g, Tiles(Decoded(P), boundaries, g),
         NEW F, NEW at, NEW W, Rewritten(P, F, at, g, W), NEW b \in W,
         NEW seen \in Seq(Names(Lines)), NEW v \in States(Values)
  PROVE  LET first == InstructionLines(P)[g[b].start]
             last == InstructionLines(P)[g[b].finish - 1]
             v2 == AssignBest(v, F[at[first]])
         IN  v2 \in States(Values)
             /\ Reaches(F, At(at[first], seen, v), At(at[last + 1], seen, v2))
<1> DEFINE first == InstructionLines(P)[g[b].start]
           last == InstructionLines(P)[g[b].finish - 1]
           line == F[at[first]]
           v2 == AssignBest(v, line)
<1>1. /\ DOMAIN P = 1 .. Len(P) /\ Len(P) \in Nat /\ IsSequence(P)
      /\ Laid(P, F, at) /\ Runnable(Lines, F) /\ DOMAIN F = 1 .. Len(F) /\ Len(F) \in Nat
  <2>1. DOMAIN P = 1 .. Len(P) /\ Len(P) \in Nat /\ IsSequence(P)
    BY DEF TextFile, IsSequence
  <2>2. Laid(P, F, at)
    BY RewrittenLaid
  <2>3. Runnable(Lines, F)
    BY RewrittenRuns
  <2>4. DOMAIN F = 1 .. Len(F) /\ Len(F) \in Nat
    BY DEF Rewritten, IsSequence
  <2> QED BY <2>1, <2>2, <2>3, <2>4
<1>2. /\ first \in DOMAIN P /\ last \in DOMAIN P /\ first \in Nat \ {0} /\ last \in Nat \ {0}
      /\ first <= last
      /\ \A n \in first .. last : n \in DOMAIN P
      /\ at[first + 1] = at[first] + 1 /\ IsBest(P, g, b, line)
      /\ \A n \in first + 1 .. last :
           IF P[n].op = "label" THEN Kept(P, F, at, n) ELSE at[n + 1] = at[n]
  BY BlockLines
<1> HIDE DEF first, last
<1>3. \A n \in 1 .. Len(P) + 1 : at[n] \in 1 .. Len(F) + 1 /\ at[n] \in Nat
  BY <1>1, LaidInside
<1>4. at[first] \in DOMAIN F /\ at[first] \in Nat
  <2>1. first \in 1 .. Len(P) + 1 /\ first + 1 \in 1 .. Len(P) + 1
    BY <1>1, <1>2
  <2>2. at[first] \in 1 .. Len(F) + 1 /\ at[first + 1] \in 1 .. Len(F) + 1
    BY <1>3, <2>1
  <2> QED BY SMTT(40), <1>1, <1>2, <2>2
<1>5. v2 \in States(Values)
  <2>1. Runs(Lines, line) /\ line.op = "best"
    BY <1>1, <1>2, <1>4 DEF Runnable, IsBest
  <2>2. line \notin Lines
    BY <2>1 DEF Language, IsLine
  <2>3. line.body \in Seq(Lines)
    BY <2>1, <2>2 DEF Runs
  <2> HIDE DEF line
  <2> QED BY <2>3, AssignBestTyped
<1> DEFINE start == At(at[first], seen, v)
           moment(n) == At(at[n], seen, v2)
<1>6. Reaches(F, start, moment(first + 1))
  <2>1. start \in Moments(Lines, Values) /\ start.pc = at[first] /\ start.seen = seen /\ start.regs = v
    BY <1>4, MomentMade, PartsOfMoment
  <2>2. line.op = "best"
    BY <1>2 DEF IsBest
  <2>3. ExecuteLine(F, start) = At(at[first] + 1, seen, v2)
    <3> HIDE DEF start, v2
    <3>1. F[start.pc] = line /\ start.pc \in DOMAIN F
      BY <1>4, <2>1
    <3>2. ExecuteLine(F, start) = At(start.pc + 1, start.seen, AssignBest(start.regs, line))
      BY <2>1, <2>2, <3>1, BestEffect
    <3> QED BY <2>1, <3>2 DEF v2
  <2>4. ExecuteLine(F, start) = moment(first + 1)
    BY <1>2, <2>3
  <2>5. start.pc # 0 /\ moment(first + 1).seen = seen
    BY <1>4, <2>1, PartsOfMoment
  <2> HIDE DEF start, moment
  <2> QED BY <2>1, <2>4, <2>5, ReachesNext
<1> HIDE DEF start, v2
<1>7. ASSUME NEW n \in first + 1 .. last PROVE Reaches(F, moment(n), moment(n + 1))
  <2>1. n \in DOMAIN P /\ n \in 1 .. Len(P) + 1 /\ n + 1 \in 1 .. Len(P) + 1
    BY <1>1, <1>2
  <2>2. CASE P[n].op # "label"
    BY <1>2, <2>2, ReachesSelf
  <2>3. CASE P[n].op = "label"
    <3>1. Kept(P, F, at, n)
      BY <1>2, <2>3
    <3>2. at[n] \in 1 .. Len(F) + 1 /\ at[n + 1] \in 1 .. Len(F) + 1
      BY <1>3, <2>1
    <3>3. at[n] \in DOMAIN F /\ at[n] \in Nat /\ F[at[n]].op = "label" /\ at[n + 1] = at[n] + 1
      BY SMTT(40), <1>1, <2>3, <3>1, <3>2 DEF Kept
    <3> DEFINE m == moment(n)
    <3>4. m \in Moments(Lines, Values) /\ m.pc = at[n] /\ m.seen = seen /\ m.regs = v2
      BY <1>5, <3>3, MomentMade, PartsOfMoment
    <3>5. ExecuteLine(F, m) = At(at[n] + 1, seen, v2)
      <4> HIDE DEF m
      <4> QED BY <3>3, <3>4, LabelEffect
    <3>6. ExecuteLine(F, m) = moment(n + 1)
      BY <3>3, <3>5
    <3>9. at[n] # 0
      BY <1>1, <2>1 DEF Laid
    <3>7. m.pc # 0 /\ moment(n + 1).seen = seen
      BY <3>4, <3>9, PartsOfMoment
    <3> HIDE DEF m
    <3>8. Reaches(F, m, moment(n + 1))
      <4> HIDE DEF moment
      <4> QED BY <3>4, <3>6, <3>7, ReachesNext
    <3> QED BY <3>8 DEF m
  <2> QED BY <2>2, <2>3
<1> DEFINE N == last - first
           Good == {j \in 0 .. N : Reaches(F, start, moment((first + 1) + j))}
<1>8. N \in Nat
  BY <1>2
<1>9. 0 \in Good
  <2>1. (first + 1) + 0 = first + 1
    BY <1>2
  <2> HIDE DEF moment
  <2> QED BY <1>6, <1>8, <2>1
<1>10. ASSUME NEW j \in 0 .. N - 1, j \in Good PROVE j + 1 \in Good
  <2> DEFINE n == (first + 1) + j
  <2> HIDE DEF moment
  <2>1. n \in first + 1 .. last /\ (first + 1) + (j + 1) = n + 1 /\ j + 1 \in 0 .. N
    <3>1. \A a, z \in Nat \ {0} : a <= z => \A k \in 0 .. (z - a) - 1 :
            (a + 1) + k \in a + 1 .. z /\ (a + 1) + (k + 1) = ((a + 1) + k) + 1 /\ k + 1 \in 0 .. z - a
      OBVIOUS
    <3> HIDE DEF Good
    <3> QED BY <1>2, <3>1
  <2>2. Reaches(F, moment(n), moment(n + 1)) /\ Reaches(F, start, moment(n))
    BY <1>7, <1>10, <2>1
  <2> HIDE DEF n
  <2>3. Reaches(F, start, moment(n + 1))
    BY <2>2, ReachesOn
  <2> QED BY <2>1, <2>3
<1>11. Reaches(F, start, moment(last + 1))
  <2> HIDE DEF Good, N, moment
  <2>1. 0 .. N \subseteq Good
    BY <1>8, <1>9, <1>10, Counting
  <2>2. Reaches(F, start, moment((first + 1) + N))
    BY <1>8, <2>1 DEF Good
  <2>3. (first + 1) + N = last + 1
    BY <1>2 DEF N
  <2> QED BY <2>2, <2>3
<1> QED BY <1>5, <1>11 DEF first, last, start, v2

\* A rewritten block carries the needed registers to the first line behind it.
LEMMA BlockCarries ==
  ASSUME NEW Lines, NEW Values, Language(Lines), Computes(Lines, Values), NEW P, TextFile(Lines, P),
         NEW boundaries, IsCut(Decoded(P), boundaries), NEW g, Tiles(Decoded(P), boundaries, g),
         NEW F, NEW at, NEW W, Rewritten(P, F, at, g, W), NEW b \in W
  PROVE  LET first == InstructionLines(P)[g[b].start]
             last == InstructionLines(P)[g[b].finish - 1]
         IN  Carries(Lines, Values, P, F, first, at[first], last + 1, at[last + 1])
<1> DEFINE p == Decoded(P)
           first == InstructionLines(P)[g[b].start]
           last == InstructionLines(P)[g[b].finish - 1]
           line == F[at[first]]
           body == [k \in 1 .. g[b].finish - g[b].start |-> P[InstructionLines(P)[g[b].start + k - 1]]]
           e == g[b].finish
<1>1. IsBest(P, g, b, line) /\ Ahead(P, first) = g[b].start /\ Ahead(P, last + 1) = e
  <2>1. IsBest(P, g, b, line)
    BY BlockLines
  <2>2. Ahead(P, first) = g[b].start
    BY BlockLines
  <2>3. Ahead(P, last + 1) = e
    BY BlockLines, SMTT(40)
  <2> QED BY <2>1, <2>2, <2>3
<1>2. line.live = NeededAfter(p, e - 1) /\ line.body = body
  BY <1>1 DEF IsBest
<1>3. Needs(p, e) \subseteq NeededAfter(p, e - 1)
  <2>1. b \in DOMAIN g /\ IsProgram(p)
    BY DecodedIsProgram DEF Rewritten
  <2>2. e \in Nat /\ e - 1 \in g[b].start .. e - 1
    BY <2>1, BlocksApart
  <2>3. e - 1 \in Positions(p)
    BY <2>2, BlockComputes
  <2>4. Needs(p, (e - 1) + 1) \subseteq NeededAfter(p, e - 1)
    BY <2>1, <2>3, NeedsFlow
  <2>5. (e - 1) + 1 = e
    BY <2>2
  <2> QED BY <2>4, <2>5
<1> SUFFICES ASSUME NEW seen \in Seq(Names(Lines)),
                    NEW u \in States(Values), NEW v \in States(Values),
                    Agree(u, v, Needs(p, Ahead(P, first)))
             PROVE  \E u2, v2 \in States(Values) :
                      /\ Reaches(P, At(first, seen, u), At(last + 1, seen, u2))
                      /\ Reaches(F, At(at[first], seen, v), At(at[last + 1], seen, v2))
                      /\ Agree(u2, v2, Needs(p, Ahead(P, last + 1)))
  BY DEF Carries
<1> HIDE DEF body
<1>4. /\ AssignAll(u, body) \in States(Values)
      /\ Reaches(P, At(first, seen, u), At(last + 1, seen, AssignAll(u, body)))
  BY BlockGoes DEF body
<1>5. /\ AssignBest(v, line) \in States(Values)
      /\ Reaches(F, At(at[first], seen, v), At(at[last + 1], seen, AssignBest(v, line)))
  BY BestGoes
<1>6. Agree(AssignAll(u, body), AssignAll(v, body), NeededAfter(p, e - 1))
  <2>1. Agree(u, v, Needs(p, g[b].start))
    BY <1>1
  <2> QED BY <2>1, BodiesAgree DEF body
<1>7. ASSUME NEW r \in Needs(p, e) PROVE AssignAll(u, body)[r] = AssignBest(v, line)[r]
  <2>1. r \in NeededAfter(p, e - 1) /\ r \in Registers
    BY <1>3 DEF Needs
  <2>2. AssignBest(v, line)[r] = AssignAll(v, body)[r]
    <3> DEFINE kept == AssignAll(v, body)
    <3>1. AssignBest(v, line) = [q \in Registers |-> IF q \in line.live THEN kept[q] ELSE Lost]
      BY <1>2 DEF AssignBest
    <3> HIDE DEF line, kept
    <3>2. AssignBest(v, line)[r] = kept[r]
      BY ONLY <1>2, <2>1, <3>1
    <3> QED BY <3>2 DEF kept
  <2> QED BY <1>6, <2>1, <2>2 DEF Agree
<1>8. Agree(AssignAll(u, body), AssignBest(v, line), Needs(p, Ahead(P, last + 1)))
  BY <1>1, <1>7 DEF Agree
<1> HIDE DEF p, first, last, line
<1> QED BY <1>4, <1>5, <1>8

\* However many blocks are rewritten, the same is seen.
LEMMA RewrittenSeen ==
  ASSUME NEW Lines, NEW Values, Language(Lines), Computes(Lines, Values), StepCounts = Nat,
         NEW P, TextFile(Lines, P),
         FitsIn(Decoded(P)), ~AnalysisPanics(Decoded(P)),
         NEW boundaries, IsCut(Decoded(P), boundaries), NEW g, Tiles(Decoded(P), boundaries, g),
         NEW F, NEW at, NEW W, Rewritten(P, F, at, g, W), NEW regs \in Starts
  PROVE  Sights(F, regs) = Sights(P, regs)
<1> DEFINE p == Decoded(P)
           D == {n \in 1 .. Len(P) + 1 : \A b \in W : ~Within(g, b, Ahead(P, n))}
<1>1. /\ IsSequence(P) /\ LabelsResolve(P) /\ DOMAIN P = 1 .. Len(P) /\ Len(P) \in Nat
      /\ Laid(P, F, at) /\ Runnable(Lines, F)
      /\ IsProgram(p) /\ W \subseteq DOMAIN g
  <2>1. IsSequence(P) /\ LabelsResolve(P) /\ DOMAIN P = 1 .. Len(P) /\ Len(P) \in Nat
    BY DEF TextFile, IsSequence
  <2>2. Laid(P, F, at)
    BY RewrittenLaid
  <2>3. Runnable(Lines, F)
    BY RewrittenRuns
  <2>4. IsProgram(p) /\ W \subseteq DOMAIN g
    BY DecodedIsProgram DEF Rewritten
  <2> QED BY <2>1, <2>2, <2>3, <2>4
<1>2. \A b \in W : /\ g[b].start \in Nat \ {0} /\ g[b].finish \in Nat /\ g[b].start < g[b].finish
                   /\ g[b].finish \in boundaries
                   /\ \A i \in boundaries : ~Within(g, b, i)
  BY <1>1, BlocksApart
<1>3. 1 \in D
  <2>1. Ahead(P, 1) = 1
    BY AheadGoes
  <2>2. \A b \in W : ~Within(g, b, 1)
    BY <1>2 DEF Within
  <2> QED BY <1>1, <2>1, <2>2
<1>4. ASSUME NEW n \in DOMAIN P, P[n].op \in LabelBranches PROVE LabelLine(P, P[n].label) \in D
  <2> DEFINE l == LabelLine(P, P[n].label)
             i == Ahead(P, n)
  <2>1. l \in DOMAIN P /\ l \in 1 .. Len(P) + 1
    BY <1>1, <1>4, LabelsAreFound
  <2>2. TargetIndex(p, i) = Ahead(P, l)
    BY <1>4, TargetsAreLabels
  <2>3. i \in Positions(p) /\ p[i].branch = "relative"
    <3>1. P[n].op # "label" /\ BranchOf(P[n]) = "relative"
      BY <1>4, OperationsAssumption DEF BranchOf
    <3> QED BY <3>1, InstructionOfLine
  <2>4. Ahead(P, l) \in boundaries
    BY <2>2, <2>3 DEF IsCut
  <2> HIDE DEF l
  <2>5. \A b \in W : ~Within(g, b, Ahead(P, l))
    BY <1>2, <2>4
  <2> QED BY <2>1, <2>5 DEF l
<1>5. ASSUME NEW n \in D \cap DOMAIN P
      PROVE  \/ n + 1 \in D /\ Kept(P, F, at, n)
             \/ \E n2 \in D : n < n2 /\ Carries(Lines, Values, P, F, n, at[n], n2, at[n2])
  <2>1. n \in Nat \ {0} /\ n + 1 \in 1 .. Len(P) + 1 /\ Ahead(P, n) \in Nat
    BY <1>1, AheadGoes
  <2>2. \A b \in W : ~Within(g, b, Ahead(P, n))
    OBVIOUS
  <2>3. CASE P[n].op = "label"
    <3>1. Ahead(P, n + 1) = Ahead(P, n)
      BY <2>1, <2>3, AheadGoes
    <3>2. Kept(P, F, at, n)
      BY <2>3 DEF Rewritten
    <3> QED BY <2>1, <2>2, <3>1, <3>2
  <2>4. CASE P[n].op # "label" /\ Kept(P, F, at, n) /\ \A b \in W : ~InBlock(g, b, Ahead(P, n))
    <3>1. Ahead(P, n + 1) = Ahead(P, n) + 1
      BY <2>1, <2>4, AheadGoes
    <3>2. ASSUME NEW b \in W PROVE ~Within(g, b, Ahead(P, n + 1))
      <4>1. ~InBlock(g, b, Ahead(P, n))
        BY <2>4
      <4> QED BY SMTT(40), <1>2, <2>1, <3>1, <4>1 DEF Within, InBlock
    <3> QED BY <2>1, <2>4, <3>2
  <2>5. CASE P[n].op # "label" /\ \E b \in W : Ahead(P, n) = g[b].start
    <3>1. PICK b \in W : Ahead(P, n) = g[b].start
      BY <2>5
    <3> DEFINE first == InstructionLines(P)[g[b].start]
               last == InstructionLines(P)[g[b].finish - 1]
    <3>2. first = n
      BY <1>1, <2>5, <3>1, InstructionsNumbered
    <3>3. last \in DOMAIN P /\ last \in Nat /\ first <= last /\ Ahead(P, last + 1) = g[b].finish
      BY BlockLines
    <3>4. Carries(Lines, Values, P, F, first, at[first], last + 1, at[last + 1])
      BY BlockCarries
    <3> HIDE DEF first, last
    <3>5. last + 1 \in D
      <4>1. \A c \in W : ~Within(g, c, Ahead(P, last + 1))
        BY <1>2, <3>3
      <4> QED BY <1>1, <3>3, <4>1
    <3>6. n < last + 1
      BY <2>1, <3>2, <3>3
    <3> QED BY <3>2, <3>4, <3>5, <3>6
  <2>6. ~ \E b \in W : Within(g, b, Ahead(P, n))
    BY <2>2
  <2> QED BY <2>3, <2>4, <2>5, <2>6 DEF Rewritten
<1>6. D \subseteq 1 .. Len(P) + 1
  OBVIOUS
<1> HIDE DEF D
<1>7. ASSUME NEW n \in D \cap DOMAIN P PROVE Follow(Lines, Values, P, F, at, D, n)
  <2>1. CASE n + 1 \in D /\ Kept(P, F, at, n)
    <3>1. P[n].op \in LabelBranches => LabelLine(P, P[n].label) \in D
      BY <1>4
    <3> QED BY <1>1, <2>1, <3>1, KeptFollows
  <2>2. CASE \E n2 \in D : n < n2 /\ Carries(Lines, Values, P, F, n, at[n], n2, at[n2])
    <3>1. PICK n2 \in D : n < n2 /\ Carries(Lines, Values, P, F, n, at[n], n2, at[n2])
      BY <2>2
    <3>2. n \in Nat \ {0} /\ n2 \in Nat /\ n2 \in 1 .. Len(P) + 1
      BY <1>1, <1>6
    <3>3. at[n2] \in Nat
      BY <1>1, <3>2 DEF Laid
    <3> QED BY <3>1, <3>2, <3>3, CarriesFollow
  <2> QED BY <1>5, <2>1, <2>2
<1>8. Meets(Lines, Values, P, F, at, D)
  BY <1>3, <1>6, <1>7 DEF Meets
<1> QED BY <1>1, <1>8, SameSights

(***************************************************************************)
(* The two ways in which a file is changed.                                *)
(***************************************************************************)

\* The first element of part i of a sequence made of parts is at off[i].
Joined(parts, n, off, whole) ==
  /\ off[1] = 1 /\ \A i \in 1 .. n : off[i + 1] = off[i] + Len(parts[i])
  /\ Len(whole) = off[n + 1] - 1
  /\ \A i \in 1 .. n : \A j \in 1 .. Len(parts[i]) : whole[off[i] + j - 1] = parts[i][j]

\* A sequence with nothing before it.
LEMMA NothingBefore ==
  ASSUME NEW S, NEW q \in Seq(S) PROVE <<>> \o q = q
OBVIOUS

\* What FlattenSeq gives is the parts, one behind the other.
LEMMA FlattenJoins ==
  ASSUME NEW S, NEW n \in Nat, NEW parts \in [1 .. n -> Seq(S)]
  PROVE  /\ FlattenSeq(parts) \in Seq(S)
         /\ \E off \in [1 .. n + 1 -> Nat \ {0}] : Joined(parts, n, off, FlattenSeq(parts))
<1> DEFINE Q == Seq(S)
           step == [k \in 1 .. n |-> [q \in Q |-> q \o parts[k]]]
<1>1. step \in [1 .. n -> [Q -> Q]]
  OBVIOUS
<1>2. <<>> \in Q /\ Len(parts) = n
  BY FunctionIsSequence
<1>3. PICK f \in [0 .. n -> Q] : Follows(f, n, <<>>, step)
  <2> HIDE DEF Q, step
  <2> QED BY <1>1, <1>2, RecursionExists
<1>4. f[0] = <<>> /\ \A k \in 1 .. n : f[k] = f[k - 1] \o parts[k] /\ f[k - 1] \in Seq(S) /\ f[k] \in Seq(S)
  <2>1. \A k \in 1 .. n : k - 1 \in 0 .. n /\ k \in 0 .. n
    OBVIOUS
  <2> QED BY <1>3, <2>1 DEF Follows
<1> HIDE DEF step, Q
<1>51. \A k \in 1 .. n : parts[k] \in Seq(S)
  OBVIOUS
<1>5. CASE n = 0
  <2>1. FlattenSeq(parts) = parts
    BY <1>2, <1>5 DEF FlattenSeq
  <2>2. parts \in Seq(S)
    BY <1>5
  <2> DEFINE off == [i \in 1 .. 1 |-> 1]
  <2>3. off \in [1 .. n + 1 -> Nat \ {0}] /\ Joined(parts, n, off, parts)
    BY <1>2, <1>5 DEF Joined
  <2> HIDE DEF off
  <2> QED BY <2>1, <2>2, <2>3
<1>6. CASE n # 0
  <2> DEFINE Body(g) == [i \in 1 .. n |-> IF i = 1 THEN parts[i] ELSE g[i - 1] \o parts[i]]
             flatten == CHOOSE g : g = Body(g)
  <2>1. FlattenSeq(parts) = flatten[n]
    BY <1>2, <1>6 DEF FlattenSeq
  <2>2. \E g : g = Body(g)
    <3> DEFINE g == [i \in 1 .. n |-> f[i]]
    <3>1. \A i \in 1 .. n : g[i] = IF i = 1 THEN parts[i] ELSE g[i - 1] \o parts[i]
      <4> SUFFICES ASSUME NEW i \in 1 .. n PROVE f[i] = IF i = 1 THEN parts[i] ELSE g[i - 1] \o parts[i]
        OBVIOUS
      <4>1. CASE i = 1
        <5>1. 1 \in 1 .. n /\ 1 - 1 = 0
          BY <4>1
        <5>2. f[1] = <<>> \o parts[1] /\ parts[1] \in Seq(S)
          BY <1>4, <1>51, <5>1
        <5>3. f[1] = parts[1]
          BY <5>2, NothingBefore
        <5> QED BY <4>1, <5>3
      <4>2. CASE i # 1
        <5>1. i - 1 \in 1 .. n
          BY <4>2
        <5> QED BY <1>4, <4>2, <5>1
      <4> QED BY <4>1, <4>2
    <3>2. g = Body(g)
      BY <3>1
    <3> QED BY <3>2
  <2>3. flatten = Body(flatten)
    <3> HIDE DEF Body
    <3> QED BY <2>2
  <2> HIDE DEF flatten
  <2>4. \A i \in 1 .. n : flatten[i] = IF i = 1 THEN parts[i] ELSE flatten[i - 1] \o parts[i]
    <3>1. \A g : \A i \in 1 .. n : Body(g)[i] = IF i = 1 THEN parts[i] ELSE g[i - 1] \o parts[i]
      OBVIOUS
    <3> HIDE DEF Body
    <3> QED BY <2>3, <3>1
  <2> DEFINE Same == {k \in 0 .. n : k # 0 => flatten[k] = f[k]}
  <2>5. 0 \in Same
    OBVIOUS
  <2>6. ASSUME NEW k \in 0 .. n - 1, k \in Same PROVE k + 1 \in Same
    <3>1. k + 1 \in 1 .. n /\ (k + 1) - 1 = k /\ k + 1 \in 0 .. n
      OBVIOUS
    <3>2. f[k + 1] = f[k] \o parts[k + 1]
      BY <1>4, <3>1
    <3>3. CASE k = 0
      <4>1. f[1] = <<>> \o parts[1] /\ parts[1] \in Seq(S) /\ 1 \in 1 .. n
        <5>1. k + 1 = 1 /\ f[k] = <<>>
          BY <1>4, <3>3
        <5>2. f[k + 1] = <<>> \o parts[k + 1] /\ parts[k + 1] \in Seq(S) /\ k + 1 \in 1 .. n
          BY <1>51, <3>1, <3>2, <5>1
        <5> QED BY <5>1, <5>2
      <4>2. f[1] = parts[1]
        BY <4>1, NothingBefore
      <4>3. flatten[1] = parts[1]
        BY <2>4, <4>1
      <4>4. 0 + 1 = 1 /\ 1 \in 0 .. n
        BY <3>1, <3>3
      <4> QED BY <3>3, <4>2, <4>3, <4>4
    <3>4. CASE k # 0
      <4>1. flatten[k + 1] = flatten[k] \o parts[k + 1]
        <5>1. k + 1 # 1
          BY <3>4
        <5> QED BY <2>4, <3>1, <5>1
      <4> QED BY <2>6, <3>1, <3>2, <3>4, <4>1
    <3> QED BY <3>3, <3>4
  <2>7. FlattenSeq(parts) = f[n]
    <3> HIDE DEF Same
    <3>1. 0 .. n \subseteq Same
      BY <2>5, <2>6, Counting
    <3> QED BY <1>6, <2>1, <3>1 DEF Same
  <2> DEFINE off == [i \in 1 .. n + 1 |-> Len(f[i - 1]) + 1]
  <2>8. \A i \in 1 .. n + 1 : i - 1 \in 0 .. n /\ f[i - 1] \in Seq(S) /\ off[i] = Len(f[i - 1]) + 1 /\ Len(f[i - 1]) \in Nat
    BY <1>3 DEF Q
  <2>9. off \in [1 .. n + 1 -> Nat \ {0}]
    BY <2>8
  <2>10. off[1] = 1 /\ \A i \in 1 .. n : off[i + 1] = off[i] + Len(parts[i])
    <3>1. off[1] = 1
      BY <1>4
    <3>2. ASSUME NEW i \in 1 .. n PROVE off[i + 1] = off[i] + Len(parts[i])
      <4>1. i + 1 \in 1 .. n + 1 /\ i \in 1 .. n + 1 /\ (i + 1) - 1 = i
        OBVIOUS
      <4>2. off[i + 1] = Len(f[i]) + 1 /\ off[i] = Len(f[i - 1]) + 1
        BY <4>1
      <4>3. Len(f[i]) = Len(f[i - 1]) + Len(parts[i]) /\ Len(f[i - 1]) \in Nat /\ Len(parts[i]) \in Nat
        <5>1. f[i - 1] \in Seq(S) /\ parts[i] \in Seq(S) /\ f[i] = f[i - 1] \o parts[i]
          BY <1>4, <1>51
        <5> QED BY <5>1, Concatenation
      <4> HIDE DEF off
      <4> QED BY <4>2, <4>3
    <3> QED BY <3>1, <3>2
  <2> DEFINE Good == {k \in 0 .. n : \A i \in 1 .. k : \A j \in 1 .. Len(parts[i]) :
                        off[i] + j - 1 <= Len(f[k]) /\ f[k][off[i] + j - 1] = parts[i][j]}
  <2> HIDE DEF off
  <2>11. 0 \in Good
    OBVIOUS
  <2>12. ASSUME NEW k \in 0 .. n - 1, k \in Good PROVE k + 1 \in Good
    <3>1. k + 1 \in 1 .. n /\ (k + 1) - 1 = k /\ k + 1 \in 0 .. n /\ k \in 0 .. n
      OBVIOUS
    <3>2. f[k + 1] = f[k] \o parts[k + 1] /\ f[k] \in Seq(S) /\ parts[k + 1] \in Seq(S)
      BY <1>4, <1>51, <3>1
    <3>3. Len(f[k + 1]) = Len(f[k]) + Len(parts[k + 1]) /\ Len(f[k]) \in Nat /\ Len(parts[k + 1]) \in Nat
      BY <3>2, Concatenation
    <3>8. /\ \A x \in 1 .. Len(f[k]) : (f[k] \o parts[k + 1])[x] = f[k][x]
          /\ \A j \in 1 .. Len(parts[k + 1]) : (f[k] \o parts[k + 1])[Len(f[k]) + j] = parts[k + 1][j]
      <4> DEFINE p == f[k]
                 q == parts[k + 1]
      <4>1. p \in Seq(S) /\ q \in Seq(S)
        BY <3>2
      <4> HIDE DEF p, q
      <4>2. /\ \A x \in 1 .. Len(p) : (p \o q)[x] = p[x]
            /\ \A j \in 1 .. Len(q) : (p \o q)[Len(p) + j] = q[j]
        BY <4>1, Concatenation
      <4> QED BY <4>2 DEF p, q
    <3>4. off[k + 1] = Len(f[k]) + 1
      BY <2>8, <3>1
    <3> SUFFICES ASSUME NEW i \in 1 .. k + 1, NEW j \in 1 .. Len(parts[i])
                 PROVE  off[i] + j - 1 <= Len(f[k + 1]) /\ f[k + 1][off[i] + j - 1] = parts[i][j]
      BY <3>1
    <3>5. off[i] \in Nat \ {0} /\ j \in Nat \ {0} /\ i \in 1 .. n
      BY <2>9, <3>1
    <3>6. CASE i = k + 1
      <4>1. off[i] + j - 1 = Len(f[k]) + j /\ j \in 1 .. Len(parts[k + 1])
        BY <3>3, <3>4, <3>5, <3>6
      <4>2. (f[k] \o parts[k + 1])[Len(f[k]) + j] = parts[k + 1][j]
        BY <3>8, <4>1
      <4>3. off[i] + j - 1 <= Len(f[k + 1])
        <5>1. \A a, c \in Nat : \A y \in 1 .. c : a + y <= a + c
          OBVIOUS
        <5> QED BY <3>3, <4>1, <5>1
      <4>4. f[k + 1][off[i] + j - 1] = parts[k + 1][j]
        BY <3>2, <4>1, <4>2
      <4> QED BY <3>6, <4>3, <4>4
    <3>7. CASE i # k + 1
      <4>1. i \in 1 .. k
        BY <3>7
      <4> DEFINE x == off[i] + j - 1
      <4>2. x <= Len(f[k]) /\ f[k][x] = parts[i][j]
        BY <2>12, <4>1
      <4>3. x \in 1 .. Len(f[k])
        <5>1. \A u, w \in Nat \ {0} : u + w - 1 \in Nat \ {0}
          OBVIOUS
        <5>2. x \in Nat \ {0}
          BY <3>5, <5>1
        <5> HIDE DEF x
        <5> QED BY <3>3, <4>2, <5>2
      <4> HIDE DEF x
      <4>4. (f[k] \o parts[k + 1])[x] = f[k][x]
        BY <3>8, <4>3
      <4>5. x <= Len(f[k + 1])
        <5>1. \A a, c \in Nat : \A y \in 1 .. a : y <= a + c
          OBVIOUS
        <5> QED BY <3>3, <4>3, <5>1
      <4> QED BY <3>2, <4>2, <4>4, <4>5 DEF x
    <3> QED BY <3>6, <3>7
  <2>13. n \in Good
    <3> HIDE DEF Good
    <3>1. 0 .. n \subseteq Good
      BY <2>11, <2>12, Counting
    <3> QED BY <3>1
  <2>14. n + 1 \in 1 .. n + 1 /\ (n + 1) - 1 = n /\ Len(f[n]) \in Nat
    BY <1>3
  <2>15. Len(f[n]) = off[n + 1] - 1
    BY <2>8, <2>14
  <2>16. Joined(parts, n, off, f[n])
    BY <2>10, <2>13, <2>15 DEF Joined
  <2>17. f[n] \in Seq(S)
    BY <1>3 DEF Q
  <2> HIDE DEF Same, Good, Body
  <2>18. \E o \in [1 .. n + 1 -> Nat \ {0}] : Joined(parts, n, o, f[n])
    BY <2>9, <2>16
  <2> QED BY <2>7, <2>17, <2>18
<1> QED BY <1>5, <1>6

\* In G the elements of x stand where F has element n.
Inserted(F, n, x, G) ==
  /\ Len(G) = Len(F) + Len(x) - 1
  /\ \A j \in 1 .. n - 1 : G[j] = F[j]
  /\ \A k \in 1 .. Len(x) : G[n + k - 1] = x[k]
  /\ \A j \in n + 1 .. Len(F) : G[j + Len(x) - 1] = F[j]

\* replace_assembly_line leaves what is before the line and what is behind it.
LEMMA LineReplacedParts ==
  ASSUME NEW S, NEW F \in Seq(S), NEW n \in 1 .. Len(F), NEW x \in Seq(S)
  PROVE  ReplaceAssemblyLine(F, n, x) \in Seq(S) /\ Inserted(F, n, x, ReplaceAssemblyLine(F, n, x))
<1> DEFINE a == SubSeq(F, 1, n - 1)
           c == SubSeq(F, n + 1, Len(F))
           ax == a \o x
<1>1. /\ Len(F) \in Nat /\ Len(x) \in Nat /\ n \in Nat \ {0} /\ n <= Len(F)
  OBVIOUS
<1>2. a \in Seq(S) /\ Len(a) = n - 1 /\ \A j \in 1 .. n - 1 : a[j] = F[j]
  BY <1>1
<1>3. c \in Seq(S) /\ Len(c) = Len(F) - n /\ \A j \in 1 .. Len(F) - n : c[j] = F[n + j]
  BY <1>1
<1>4. ReplaceAssemblyLine(F, n, x) = ax \o c
  BY DEF ReplaceAssemblyLine
<1> HIDE DEF a, c
<1>5. /\ ax \in Seq(S) /\ Len(ax) = n - 1 + Len(x)
      /\ \A j \in 1 .. n - 1 : ax[j] = F[j]
      /\ \A k \in 1 .. Len(x) : ax[(n - 1) + k] = x[k]
  <2>1. /\ ax \in Seq(S) /\ Len(ax) = Len(a) + Len(x)
        /\ \A j \in 1 .. Len(a) : ax[j] = a[j]
        /\ \A k \in 1 .. Len(x) : ax[Len(a) + k] = x[k]
    <3>1. a \in Seq(S) /\ x \in Seq(S)
      BY <1>2
    <3> QED BY <3>1, Concatenation
  <2> HIDE DEF ax
  <2> QED BY <1>2, <2>1
<1> HIDE DEF ax
<1>6. /\ ax \o c \in Seq(S) /\ Len(ax \o c) = (n - 1 + Len(x)) + (Len(F) - n)
      /\ \A j \in 1 .. n - 1 + Len(x) : (ax \o c)[j] = ax[j]
      /\ \A k \in 1 .. Len(F) - n : (ax \o c)[(n - 1 + Len(x)) + k] = c[k]
  <2> DEFINE y == ax \o c
  <2>1. /\ y \in Seq(S) /\ Len(y) = Len(ax) + Len(c)
        /\ \A j \in 1 .. Len(ax) : y[j] = ax[j]
        /\ \A k \in 1 .. Len(c) : y[Len(ax) + k] = c[k]
    <3>1. ax \in Seq(S) /\ c \in Seq(S)
      BY <1>3, <1>5
    <3> QED BY <3>1, Concatenation
  <2> HIDE DEF y
  <2>2. /\ y \in Seq(S) /\ Len(y) = (n - 1 + Len(x)) + (Len(F) - n)
        /\ \A j \in 1 .. n - 1 + Len(x) : y[j] = ax[j]
        /\ \A k \in 1 .. Len(F) - n : y[(n - 1 + Len(x)) + k] = c[k]
    BY <1>3, <1>5, <2>1
  <2> QED BY <2>2 DEF y
<1> DEFINE G == ReplaceAssemblyLine(F, n, x)
<1>12. G = ax \o c
  BY <1>4
<1> HIDE DEF G
<1>7. Len(G) = Len(F) + Len(x) - 1 /\ G \in Seq(S)
  <2>1. Len(G) = (n - 1 + Len(x)) + (Len(F) - n) /\ G \in Seq(S)
    BY <1>6, <1>12, Zenon
  <2>2. \A u, v, w \in Nat : (u - 1 + v) + (w - u) = w + v - 1
    OBVIOUS
  <2> QED BY <1>1, <2>1, <2>2
<1>8. ASSUME NEW j \in 1 .. n - 1 PROVE G[j] = F[j]
  BY <1>1, <1>5, <1>6, <1>12
<1>9. ASSUME NEW k \in 1 .. Len(x) PROVE G[n + k - 1] = x[k]
  <2>1. n + k - 1 = (n - 1) + k /\ (n - 1) + k \in 1 .. n - 1 + Len(x)
    BY <1>1
  <2> QED BY <1>5, <1>6, <1>12, <2>1
<1>10. ASSUME NEW j \in n + 1 .. Len(F) PROVE G[j + Len(x) - 1] = F[j]
  <2>1. j - n \in 1 .. Len(F) - n /\ j + Len(x) - 1 = (n - 1 + Len(x)) + (j - n) /\ n + (j - n) = j
    BY <1>1
  <2>2. (ax \o c)[(n - 1 + Len(x)) + (j - n)] = c[j - n]
    BY <1>6, <2>1
  <2>3. c[j - n] = F[n + (j - n)]
    BY <1>3, <2>1
  <2> QED BY <1>12, <2>1, <2>2, <2>3
<1>13. Inserted(F, n, x, G)
  BY <1>7, <1>8, <1>9, <1>10 DEF Inserted
<1> QED BY <1>7, <1>13 DEF G

\* A sequence is one of any set that has its elements.
LEMMA SequenceOfElements ==
  ASSUME NEW S, NEW F, IsSequence(F), \A m \in 1 .. Len(F) : F[m] \in S
  PROVE  F \in Seq(S)
<1>1. Len(F) \in Nat /\ DOMAIN F = 1 .. Len(F) /\ F = [n \in DOMAIN F |-> F[n]]
  BY DEF IsSequence
<1>2. F \in [1 .. Len(F) -> S]
  <2>1. [n \in DOMAIN F |-> F[n]] \in [1 .. Len(F) -> S]
    BY <1>1
  <2> QED BY <1>1, <2>1
<1> QED BY <1>1, <1>2, FunctionIsSequence

\* Up to line n nothing has been replaced.
Untouched(P, F, at, n) ==
  /\ \A j \in 1 .. n + 1 : at[j] = j
  /\ \A j \in 1 .. n : F[j] = P[j]

\* An instruction is replaced by code the hook was asked for.
LEMMA LineReplaced ==
  ASSUME NEW Lines, Language(Lines), NEW P, TextFile(Lines, P),
         NEW F, LabelsResolve(F), NEW at, Spread(P, F, at),
         NEW n \in DOMAIN P, P[n].op # "label", Untouched(P, F, at, n),
         NEW number \in Nat, GivenBefore(number, P[n].label),
         NEW x \in Expansions(P[n], Registers \ NeededAfter(Decoded(P), Ahead(P, n)), number)
  PROVE  \E at2 : /\ Spread(P, ReplaceAssemblyLine(F, n, x), at2)
                  /\ \A m \in 1 .. n - 1 : Untouched(P, ReplaceAssemblyLine(F, n, x), at2, m)
<1>1. /\ IsSequence(P) /\ DOMAIN P = 1 .. Len(P) /\ Len(P) \in Nat /\ n \in Nat \ {0} /\ n <= Len(P)
      /\ IsSequence(F) /\ Len(F) \in Nat /\ DOMAIN F = 1 .. Len(F) /\ Laid(P, F, at)
      /\ at \in [1 .. Len(P) + 1 -> Nat \ {0}] /\ at[Len(P) + 1] = Len(F) + 1
  BY DEF TextFile, IsSequence, Spread, Laid
<1>2. F \in Seq(Lines)
  <2>1. TextFile(Lines, F)
    BY SpreadRuns
  <2>2. \A m \in 1 .. Len(F) : F[m] \in Lines
    BY <1>1, <2>1 DEF TextFile
  <2> QED BY <1>1, <2>2, SequenceOfElements
<1>3. P[n] \in Lines /\ Registers \ NeededAfter(Decoded(P), Ahead(P, n)) \in SUBSET Registers
  BY DEF TextFile
<1>4. x \in Seq(Lines)
  BY <1>3 DEF Language
<1>5. Len(x) \in Nat /\ DOMAIN x = 1 .. Len(x)
  BY <1>4
<1>6. at[n] = n /\ at[n + 1] = n + 1 /\ n + 1 \in 1 .. Len(P) + 1
  BY <1>1 DEF Untouched
<1>7. n <= Len(F)
  <2>1. at[n + 1] \in 1 .. Len(F) + 1
    BY <1>1, <1>6, LaidInside
  <2> QED BY <1>1, <1>6, <2>1
<1> DEFINE G == ReplaceAssemblyLine(F, n, x)
           d == Len(x)
           at2 == [k \in 1 .. Len(P) + 1 |-> IF k <= n THEN k ELSE at[k] + d - 1]
<1>8. /\ G \in Seq(Lines) /\ Len(G) = Len(F) + d - 1
      /\ \A j \in 1 .. n - 1 : G[j] = F[j]
      /\ \A k \in 1 .. d : G[n + k - 1] = x[k]
      /\ \A j \in n + 1 .. Len(F) : G[j + d - 1] = F[j]
  <2>1. n \in 1 .. Len(F) /\ F \in Seq(Lines) /\ x \in Seq(Lines)
    BY <1>1, <1>2, <1>4, <1>7
  <2>2. G \in Seq(Lines) /\ Inserted(F, n, x, G)
    BY <2>1, LineReplacedParts
  <2> HIDE DEF G
  <2> QED BY <2>2 DEF Inserted
<1>81. d \in Nat
  BY <1>5
<1> HIDE DEF G, d
<1>9. /\ \A k \in 1 .. n : at2[k] = k
      /\ \A k \in n + 1 .. Len(P) + 1 : /\ at2[k] = at[k] + d - 1
                                        /\ at[k] \in Nat /\ n + 1 <= at[k]
  <2>1. \A k \in 1 .. n : at2[k] = k
    BY <1>1
  <2>2. ASSUME NEW k \in n + 1 .. Len(P) + 1 PROVE at2[k] = at[k] + d - 1 /\ at[k] \in Nat /\ n + 1 <= at[k]
    <3>1. k \in 1 .. Len(P) + 1 /\ ~(k <= n)
      BY <1>1
    <3>2. at2[k] = at[k] + d - 1
      BY <3>1
    <3>3. at[n + 1] <= at[k]
      BY SMTT(40), <1>1, <1>6, <3>1, LaidInside
    <3> QED BY <1>1, <1>6, <3>1, <3>2, <3>3
  <2> QED BY <2>1, <2>2
<1>10. at2 \in [1 .. Len(P) + 1 -> Nat \ {0}]
  <2>1. ASSUME NEW k \in 1 .. Len(P) + 1 PROVE at2[k] \in Nat \ {0}
    <3>1. k \in 1 .. n \/ k \in n + 1 .. Len(P) + 1
      BY <1>1
    <3>2. CASE k \in 1 .. n
      BY <1>9, <3>2
    <3>3. CASE k \in n + 1 .. Len(P) + 1
      <4> HIDE DEF at2
      <4>1. at2[k] = at[k] + d - 1 /\ at[k] \in Nat /\ n + 1 <= at[k]
        BY <1>9, <3>3
      <4> QED BY <1>1, <1>81, <4>1
    <3> QED BY <3>1, <3>2, <3>3
  <2> QED BY <2>1
<1> HIDE DEF at2
<1>11. at2[1] = 1 /\ at2[Len(P) + 1] = Len(G) + 1
  <2>1. 1 \in 1 .. n /\ Len(P) + 1 \in n + 1 .. Len(P) + 1
    BY <1>1
  <2>2. at2[Len(P) + 1] = (Len(F) + 1) + d - 1
    BY <1>1, <1>9, <2>1
  <2> QED BY <1>1, <1>81, <1>8, <1>9, <2>1, <2>2
<1>12. ASSUME NEW k \in 1 .. n - 1 PROVE Kept(P, G, at2, k) /\ at2[k] <= at2[k + 1]
  <2>1. k \in 1 .. n /\ k + 1 \in 1 .. n /\ k \in Nat
    BY <1>1
  <2>2. G[k] = P[k]
    BY <1>8, <2>1 DEF Untouched
  <2> QED BY <1>9, <2>1, <2>2 DEF Kept
<1>13. Expanded(P, G, at2, n) /\ at2[n] <= at2[n + 1]
  <2>1. n \in 1 .. n /\ n + 1 \in n + 1 .. Len(P) + 1
    BY <1>1
  <2>2. at2[n] = n /\ at2[n + 1] = n + d
    BY <1>1, <1>81, <1>6, <1>9, <2>1
  <2>3. \A k \in 1 .. Len(x) : G[at2[n] + k - 1] = x[k]
    BY <1>8, <2>2 DEF d
  <2>4. at2[n + 1] = at2[n] + Len(x)
    BY <2>2 DEF d
  <2>5. at2[n] <= at2[n + 1]
    BY <1>1, <1>81, <2>2
  <2>6. Stands(P, G, at2, n, x)
    BY <2>3, <2>4 DEF Stands
  <2> HIDE DEF G
  <2> QED BY <2>5, <2>6 DEF Expanded
<1>14. ASSUME NEW k \in n + 1 .. Len(P)
       PROVE  /\ at2[k] = at[k] + d - 1 /\ at2[k + 1] = at[k + 1] + d - 1
              /\ at[k] \in Nat /\ at[k + 1] \in Nat /\ at[k] <= at[k + 1]
              /\ \A i \in Int : at[k] <= i /\ i < at[k + 1] => G[i + d - 1] = F[i]
  <2>1. k \in n + 1 .. Len(P) + 1 /\ k + 1 \in n + 1 .. Len(P) + 1 /\ k \in 1 .. Len(P) + 1
        /\ k + 1 \in 1 .. Len(P) + 1 /\ k \in Nat /\ k <= k + 1
    BY <1>1
  <2>2. at[k] <= at[k + 1] /\ at[k + 1] \in 1 .. Len(F) + 1
    BY <1>1, <2>1, LaidInside
  <2>3. n + 1 <= at[k] /\ at[k] \in Nat
    BY <1>9, <2>1
  <2>4. \A i \in Int : at[k] <= i /\ i < at[k + 1] => i \in n + 1 .. Len(F)
    <3> DEFINE a == at[k]
               z == at[k + 1]
               m == Len(F)
    <3>1. a \in Nat /\ n + 1 <= a /\ z \in 1 .. m + 1 /\ m \in Nat /\ n \in Nat
      BY <1>1, <2>2, <2>3
    <3> HIDE DEF a, z, m
    <3>2. \A i \in Int : a <= i /\ i < z => i \in n + 1 .. m
      BY SMTT(40), <3>1
    <3> QED BY <3>2 DEF a, z, m
  <2> QED BY <1>8, <1>9, <2>1, <2>2, <2>3, <2>4
<1>15. ASSUME NEW k \in n + 1 .. Len(P) PROVE at2[k] <= at2[k + 1] /\ (Kept(P, G, at2, k) \/ Expanded(P, G, at2, k))
  <2> DEFINE a == at[k]
             z == at[k + 1]
  <2>9. a \in Nat /\ z \in Nat /\ a <= z /\ at2[k] = a + d - 1 /\ at2[k + 1] = z + d - 1
    BY <1>14
  <2>1. at2[k] <= at2[k + 1]
    <3> HIDE DEF a, z
    <3>1. a + d - 1 <= z + d - 1
      BY <1>81, <2>9
    <3> QED BY <2>9, <3>1
  <2>2. k \in DOMAIN P
    BY <1>1
  <2>3. CASE Kept(P, F, at, k)
    <3>1. at[k] \in Int /\ at[k] < at[k + 1]
      BY <1>14, <2>3 DEF Kept
    <3>4. F[at[k]] = P[k] /\ at[k + 1] = at[k] + 1
      BY <2>3 DEF Kept
    <3>5. at2[k] = at[k] + d - 1 /\ G[at[k] + d - 1] = F[at[k]]
      <4>1. /\ at2[k] = at[k] + d - 1
            /\ \A i \in Int : at[k] <= i /\ i < at[k + 1] => G[i + d - 1] = F[i]
        BY <1>14
      <4>2. at[k] <= at[k]
        BY <3>1
      <4> QED BY ZenonT(40), <3>1, <4>1, <4>2
    <3>2. G[at2[k]] = P[k]
      BY <3>4, <3>5
    <3>3. at2[k + 1] = at2[k] + 1
      <4>1. at2[k] = at[k] + d - 1 /\ at2[k + 1] = at[k + 1] + d - 1 /\ at[k] \in Nat
        BY <1>14
      <4> QED BY <1>81, <3>4, <4>1
    <3> QED BY <2>1, <3>2, <3>3 DEF Kept
  <2>4. CASE Expanded(P, F, at, k)
    <3> DEFINE free == Registers \ NeededAfter(Decoded(P), Ahead(P, k))
    <3>5. P[k].op # "label"
      BY <2>4 DEF Expanded
    <3>6. PICK m \in Nat : /\ GivenBefore(m, P[k].label)
                           /\ \E y \in Expansions(P[k], free, m) : Stands(P, F, at, k, y)
      BY <2>4 DEF Expanded
    <3>7. PICK y \in Expansions(P[k], free, m) : Stands(P, F, at, k, y)
      BY <3>6
    <3>1. /\ at[k + 1] = at[k] + Len(y)
          /\ \A i \in 1 .. Len(y) : F[at[k] + i - 1] = y[i]
      BY <3>7 DEF Stands
    <3>2. Len(y) \in Nat
      <4>1. P[k] \in Lines /\ free \in SUBSET Registers
        BY <2>2 DEF TextFile
      <4>2. y \in Seq(Lines)
        BY <3>5, <3>6, <4>1 DEF Language
      <4> QED BY <4>2
    <3>3. at2[k + 1] = at2[k] + Len(y)
      <4> DEFINE len == Len(y)
      <4>1. len \in Nat /\ z = a + len
        BY <3>1, <3>2
      <4> HIDE DEF a, z, len
      <4>2. z + d - 1 = (a + d - 1) + len
        BY <1>81, <2>9, <4>1
      <4> QED BY <2>9, <4>2 DEF len
    <3>4. ASSUME NEW i \in 1 .. Len(y) PROVE G[at2[k] + i - 1] = y[i]
      <4>1. at[k] + i - 1 \in Int /\ at[k] <= at[k] + i - 1 /\ at[k] + i - 1 < at[k + 1]
        BY SMTT(40), <1>14, <3>1, <3>2
      <4>2. at2[k] + i - 1 = (at[k] + i - 1) + d - 1
        BY SMTT(40), <1>81, <1>14, <3>2
      <4> QED BY ZenonT(40), <1>14, <3>1, <4>1, <4>2
    <3>8. Stands(P, G, at2, k, y)
      BY <3>3, <3>4 DEF Stands
    <3>9. Expanded(P, G, at2, k)
      BY <3>5, <3>6, <3>8 DEF Expanded
    <3> QED BY <2>1, <3>9
  <2> QED BY <2>2, <2>3, <2>4 DEF Spread
<1>16. ASSUME NEW k \in DOMAIN P
       PROVE  at2[k] <= at2[k + 1] /\ (Kept(P, G, at2, k) \/ Expanded(P, G, at2, k))
  <2>1. k \in 1 .. n - 1 \/ k = n \/ k \in n + 1 .. Len(P)
    BY <1>1
  <2> QED BY <1>12, <1>13, <1>15, <2>1
<1>17. IsSequence(G)
  BY <1>8 DEF IsSequence
<1>18. ASSUME NEW k \in DOMAIN P, P[k].op = "label" PROVE Kept(P, G, at2, k)
  BY <1>16, <1>18 DEF Expanded
<1>19. Spread(P, G, at2)
  BY <1>10, <1>11, <1>16, <1>17, <1>18 DEF Spread, Laid
<1>20. ASSUME NEW m \in 1 .. n - 1 PROVE Untouched(P, G, at2, m)
  <2>1. \A j \in 1 .. m + 1 : j \in 1 .. n
    BY <1>1
  <2>2. \A j \in 1 .. m : j \in 1 .. n - 1 /\ j \in 1 .. n
    BY <1>1
  <2> QED BY SMTT(40), <1>8, <1>9, <2>1, <2>2 DEF Untouched
<1> QED BY <1>19, <1>20 DEF G

\* Every line has its number, as asm_preproc leaves it.
Numbered(f) == \A n \in DOMAIN f : f[n].tag = n

\* The lines that hold the instructions of block b.
LinesOf(P, g, b) == {InstructionLines(P)[i] : i \in g[b].start .. g[b].finish - 1}

\* What replace_assembly makes of each line.
PartsFor(P, F, g, b, line) ==
  [m \in DOMAIN F |->
     IF F[m].tag = InstructionLines(P)[g[b].start] THEN <<line>>
     ELSE IF F[m].tag \in LinesOf(P, g, b) THEN <<>> ELSE <<F[m]>>]

\* The lines of a block are those ahead of which its instructions are counted.
LEMMA LinesOfBlock ==
  ASSUME NEW Lines, Language(Lines), NEW P, TextFile(Lines, P),
         NEW boundaries, IsCut(Decoded(P), boundaries), NEW g, Tiles(Decoded(P), boundaries, g),
         NEW b \in DOMAIN g
  PROVE  LET first == InstructionLines(P)[g[b].start]
         IN  /\ first \in LinesOf(P, g, b) /\ LinesOf(P, g, b) \subseteq Nat \ {0}
             /\ \A n \in DOMAIN P : n \in LinesOf(P, g, b) <=> P[n].op # "label" /\ InBlock(g, b, Ahead(P, n))
             /\ \A n \in DOMAIN P : n = first <=> P[n].op # "label" /\ Ahead(P, n) = g[b].start
<1> DEFINE ls == InstructionLines(P)
           s == g[b].start
           e == g[b].finish
<1>0. IsSequence(P) /\ IsProgram(Decoded(P)) /\ \A m \in DOMAIN P : P[m] \in Lines
  BY DecodedIsProgram DEF TextFile
<1>1. /\ s \in Nat \ {0} /\ e \in Nat /\ s < e /\ e <= Len(Decoded(P)) + 1
  BY <1>0, BlocksApart
<1>2. Len(Decoded(P)) = Len(ls) /\ Len(ls) \in Nat
  BY <1>0, DecodedLines
<1>3. /\ \A i \in 1 .. Len(ls) : ls[i] \in DOMAIN P /\ P[ls[i]].op # "label" /\ Ahead(P, ls[i]) = i
      /\ \A n \in DOMAIN P : P[n].op # "label" => Ahead(P, n) \in 1 .. Len(ls) /\ ls[Ahead(P, n)] = n
  BY <1>0, InstructionsNumbered
<1>4. DOMAIN P \subseteq Nat \ {0}
  BY <1>0 DEF IsSequence
<1>5. LinesOf(P, g, b) = {ls[i] : i \in s .. e - 1}
  BY DEF LinesOf
<1>6. s \in s .. e - 1 /\ s .. e - 1 \subseteq 1 .. Len(ls)
  <2> HIDE DEF s, e, ls
  <2> QED BY <1>1, <1>2
<1>7. \A i \in Int : i \in s .. e - 1 <=> InBlock(g, b, i)
  <2>1. \A i \in Int : i \in s .. e - 1 <=> s <= i /\ i < e
    <3> HIDE DEF s, e
    <3> QED BY <1>1
  <2> QED BY <2>1 DEF InBlock
<1> HIDE DEF s, e, ls
<1>8. ASSUME NEW n \in DOMAIN P
      PROVE  n \in {ls[i] : i \in s .. e - 1} <=> P[n].op # "label" /\ InBlock(g, b, Ahead(P, n))
  <2>1. ASSUME NEW i \in s .. e - 1, n = ls[i] PROVE P[n].op # "label" /\ InBlock(g, b, Ahead(P, n))
    BY <1>3, <1>6, <1>7, <2>1
  <2>2. ASSUME P[n].op # "label", InBlock(g, b, Ahead(P, n)) PROVE n \in {ls[i] : i \in s .. e - 1}
    <3>1. Ahead(P, n) \in 1 .. Len(ls) /\ ls[Ahead(P, n)] = n
      BY <1>3, <2>2
    <3>2. Ahead(P, n) \in s .. e - 1
      BY <1>7, <2>2, <3>1
    <3> QED BY <3>1, <3>2
  <2> QED BY <2>1, <2>2
<1>9. ASSUME NEW n \in DOMAIN P PROVE n = ls[s] <=> P[n].op # "label" /\ Ahead(P, n) = s
  BY <1>3, <1>6
<1>10. ls[s] \in {ls[i] : i \in s .. e - 1} /\ {ls[i] : i \in s .. e - 1} \subseteq Nat \ {0}
  BY <1>3, <1>4, <1>6
<1> QED BY <1>5, <1>8, <1>9, <1>10 DEF ls, s

\* Where part m goes.
Placed(parts, off, whole, m) ==
  /\ parts[m] = <<>> => off[m + 1] = off[m]
  /\ \A e : parts[m] = <<e>> => off[m + 1] = off[m] + 1 /\ whole[off[m]] = e

\* Every part is where it was put.
LEMMA PartPlaced ==
  ASSUME NEW n \in Nat, NEW parts, NEW off \in [1 .. n + 1 -> Nat \ {0}], NEW whole,
         Joined(parts, n, off, whole), NEW m \in 1 .. n
  PROVE  Placed(parts, off, whole, m)
<1>1. off[m] \in Nat \ {0} /\ off[m + 1] = off[m] + Len(parts[m])
      /\ \A j \in 1 .. Len(parts[m]) : whole[off[m] + j - 1] = parts[m][j]
  BY SMTT(40) DEF Joined
<1>2. parts[m] = <<>> => off[m + 1] = off[m]
  <2>1. Len(<<>>) = 0
    OBVIOUS
  <2> QED BY <1>1, <2>1
<1>3. ASSUME NEW e, parts[m] = <<e>> PROVE off[m + 1] = off[m] + 1 /\ whole[off[m]] = e
  <2>1. Len(<<e>>) = 1 /\ <<e>>[1] = e
    OBVIOUS
  <2>2. 1 \in 1 .. Len(parts[m]) /\ off[m] + 1 - 1 = off[m]
    BY <1>1, <1>3, <2>1
  <2> QED BY <1>1, <1>3, <2>1, <2>2
<1> QED BY <1>2, <1>3 DEF Placed

\* The lines of a block are replaced by the best one.
LEMMA BlockReplaced ==
  ASSUME NEW Lines, Language(Lines), NEW P, TextFile(Lines, P), Numbered(P),
         NEW boundaries, IsCut(Decoded(P), boundaries), NEW g, Tiles(Decoded(P), boundaries, g),
         NEW F, NEW at, NEW W, Rewritten(P, F, at, g, W), NEW b \in DOMAIN g,
         \A i \in g[b].start .. g[b].finish - 1 : Decoded(P)[i].branch = "none",
         NEW line, IsBest(P, g, b, line)
  PROVE  \E at2 : Rewritten(P, FlattenSeq(PartsFor(P, F, g, b, line)), at2, g, W \cup {b})
<1> DEFINE parts == PartsFor(P, F, g, b, line)
           N == Len(F)
           S == {F[m] : m \in DOMAIN F} \cup {line}
           G == FlattenSeq(parts)
           first == InstructionLines(P)[g[b].start]
           T == LinesOf(P, g, b)
<1>1. /\ IsSequence(P) /\ IsProgram(Decoded(P)) /\ DOMAIN P = 1 .. Len(P) /\ Len(P) \in Nat
      /\ N \in Nat /\ DOMAIN F = 1 .. N
      /\ at \in [1 .. Len(P) + 1 -> Nat \ {0}] /\ at[1] = 1 /\ at[Len(P) + 1] = N + 1
  BY DecodedIsProgram DEF TextFile, IsSequence, Rewritten
<1>2. \A n \in 1 .. Len(P) + 1 : at[n] \in 1 .. N + 1
  BY <1>1, RewrittenLaid, LaidInside
<1>3. \A m \in 1 .. N : parts[m] = IF F[m].tag = first THEN <<line>>
                                   ELSE IF F[m].tag \in T THEN <<>> ELSE <<F[m]>>
  BY <1>1 DEF PartsFor
<1>4. parts \in [1 .. N -> Seq(S)]
  <2>1. parts = [m \in 1 .. N |-> parts[m]]
    BY <1>1 DEF PartsFor
  <2>2. \A m \in 1 .. N : <<line>> \in Seq(S) /\ <<>> \in Seq(S) /\ <<F[m]>> \in Seq(S)
    <3>1. line \in S /\ \A m \in 1 .. N : F[m] \in S
      BY <1>1
    <3> HIDE DEF S
    <3> QED BY <3>1
  <2>3. \A m \in 1 .. N : parts[m] \in Seq(S)
    <3> HIDE DEF parts, S, first, T
    <3> QED BY <1>3, <2>2
  <2> HIDE DEF parts, S
  <2> QED BY <2>1, <2>3
<1>5. /\ first \in T /\ T \subseteq Nat \ {0}
      /\ \A n \in DOMAIN P : n \in T <=> P[n].op # "label" /\ InBlock(g, b, Ahead(P, n))
      /\ \A n \in DOMAIN P : n = first <=> P[n].op # "label" /\ Ahead(P, n) = g[b].start
  BY <1>1, LinesOfBlock
<1> HIDE DEF parts, S, first, T, N
<1>6. PICK off \in [1 .. N + 1 -> Nat \ {0}] : G \in Seq(S) /\ Joined(parts, N, off, G)
  BY <1>1, <1>4, FlattenJoins
<1> HIDE DEF G
<1> DEFINE at2 == [n \in 1 .. Len(P) + 1 |-> off[at[n]]]
<1>7. at2 \in [1 .. Len(P) + 1 -> Nat \ {0}]
  BY <1>2, <1>6
<1>8. off[1] = 1 /\ off[N + 1] = Len(G) + 1 /\ IsSequence(G)
  <2>1. off[1] = 1 /\ Len(G) = off[N + 1] - 1
    BY <1>6 DEF Joined
  <2>2. off[N + 1] \in Nat
    BY <1>1, <1>6
  <2>3. Len(G) \in Nat /\ DOMAIN G = 1 .. Len(G) /\ G = [n \in DOMAIN G |-> G[n]]
    BY <1>6
  <2> QED BY <2>1, <2>2, <2>3 DEF IsSequence
<1>9. at2[1] = 1 /\ at2[Len(P) + 1] = Len(G) + 1
  BY <1>1, <1>8
<1>10. \A n \in DOMAIN P : at2[n] = off[at[n]] /\ at2[n + 1] = off[at[n + 1]]
  BY SMTT(40), <1>1
<1> HIDE DEF at2
<1>11. ASSUME NEW n \in DOMAIN P
       PROVE  \/ /\ Kept(P, G, at2, n)
                 /\ P[n].op = "label" \/ \A c \in W \cup {b} : ~InBlock(g, c, Ahead(P, n))
              \/ /\ P[n].op # "label" /\ at2[n + 1] = at2[n] + 1
                 /\ \E c \in W \cup {b} : Ahead(P, n) = g[c].start /\ IsBest(P, g, c, G[at2[n]])
              \/ /\ P[n].op # "label" /\ at2[n + 1] = at2[n]
                 /\ \E c \in W \cup {b} : Within(g, c, Ahead(P, n))
  <2>1. at[n] \in 1 .. N + 1 /\ at[n + 1] \in 1 .. N + 1
    BY SMTT(40), <1>1, <1>2
  <2>2. at[n + 1] = at[n] + 1 => at[n] \in 1 .. N
    BY <1>1, <2>1
  <2>3. at[n + 1] = at[n] + 1 =>
          /\ parts[at[n]] = <<>> => at2[n + 1] = at2[n]
          /\ \A x : parts[at[n]] = <<x>> => at2[n + 1] = at2[n] + 1 /\ G[at2[n]] = x
    <3> SUFFICES ASSUME at[n + 1] = at[n] + 1
                 PROVE  /\ parts[at[n]] = <<>> => at2[n + 1] = at2[n]
                        /\ \A x : parts[at[n]] = <<x>> => at2[n + 1] = at2[n] + 1 /\ G[at2[n]] = x
      OBVIOUS
    <3>1. /\ parts[at[n]] = <<>> => off[at[n] + 1] = off[at[n]]
          /\ \A x : parts[at[n]] = <<x>> => off[at[n] + 1] = off[at[n]] + 1 /\ G[off[at[n]]] = x
      <4>1. /\ N \in Nat /\ off \in [1 .. N + 1 -> Nat \ {0}]
            /\ Joined(parts, N, off, G) /\ at[n] \in 1 .. N
        BY <1>1, <1>6, <2>2
      <4>2. Placed(parts, off, G, at[n])
        BY <4>1, PartPlaced
      <4> QED BY <4>2 DEF Placed
    <3> QED BY <1>10, <3>1
  <2>4. CASE /\ Kept(P, F, at, n)
             /\ P[n].op = "label" \/ \A c \in W : ~InBlock(g, c, Ahead(P, n))
    <3>1. F[at[n]] = P[n] /\ at[n + 1] = at[n] + 1
      BY <2>4 DEF Kept
    <3>2. P[n].tag = n
      BY DEF Numbered
    <3>3. parts[at[n]] = IF n = first THEN <<line>> ELSE IF n \in T THEN <<>> ELSE <<P[n]>>
      BY <1>3, <2>2, <3>1, <3>2
    <3>4. CASE n = first
      <4>1. P[n].op # "label" /\ Ahead(P, n) = g[b].start
        BY <1>5, <3>4
      <4>2. at2[n + 1] = at2[n] + 1 /\ G[at2[n]] = line
        BY <2>3, <3>1, <3>3, <3>4
      <4> QED BY <4>1, <4>2
    <3>5. CASE n # first /\ n \in T
      <4>1. P[n].op # "label" /\ InBlock(g, b, Ahead(P, n)) /\ Ahead(P, n) # g[b].start
        BY <1>5, <3>5
      <4>2. at2[n + 1] = at2[n]
        BY <2>3, <3>1, <3>3, <3>5
      <4>3. Within(g, b, Ahead(P, n))
        <5>1. Ahead(P, n) \in Nat /\ g[b].start \in Nat
          <6>1. g[b].start \in Nat
            BY <1>1, BlocksApart
          <6>2. n \in Nat \ {0}
            BY <1>1
          <6> QED BY <6>1, <6>2, AheadGoes
        <5> QED BY <4>1, <5>1 DEF InBlock, Within
      <4> QED BY <4>1, <4>2, <4>3
    <3>6. CASE n # first /\ n \notin T
      <4>1. Kept(P, G, at2, n)
        BY <2>3, <3>1, <3>3, <3>6 DEF Kept
      <4>2. P[n].op = "label" \/ \A c \in W \cup {b} : ~InBlock(g, c, Ahead(P, n))
        BY <1>5, <2>4, <3>6
      <4> QED BY <4>1, <4>2
    <3> QED BY <3>4, <3>5, <3>6
  <2>5. CASE /\ P[n].op # "label" /\ at[n + 1] = at[n] + 1
             /\ \E c \in W : Ahead(P, n) = g[c].start /\ IsBest(P, g, c, F[at[n]])
    <3>1. PICK c \in W : Ahead(P, n) = g[c].start /\ IsBest(P, g, c, F[at[n]])
      BY <2>5
    <3>2. F[at[n]].tag = 0
      BY <3>1 DEF IsBest
    <3>3. parts[at[n]] = <<F[at[n]]>>
      BY <1>3, <1>5, <2>2, <2>5, <3>2
    <3>4. at2[n + 1] = at2[n] + 1 /\ G[at2[n]] = F[at[n]]
      BY <2>3, <2>5, <3>3
    <3> QED BY <2>5, <3>1, <3>4
  <2>6. CASE /\ P[n].op # "label" /\ at[n + 1] = at[n]
             /\ \E c \in W : Within(g, c, Ahead(P, n))
    BY <1>10, <2>6
  <2> QED BY <2>4, <2>5, <2>6 DEF Rewritten
<1>12. W \cup {b} \subseteq DOMAIN g
  BY DEF Rewritten
<1>13. \A c \in W \cup {b} : \A i \in g[c].start .. g[c].finish - 1 : Decoded(P)[i].branch = "none"
  BY DEF Rewritten
<1>14. Rewritten(P, G, at2, g, W \cup {b})
  BY <1>7, <1>8, <1>9, <1>11, <1>12, <1>13 DEF Rewritten
<1> QED BY <1>14 DEF G, parts

\* Nothing is rewritten yet.
LEMMA NothingRewritten ==
  ASSUME NEW P, IsSequence(P), NEW g
  PROVE  Rewritten(P, P, [n \in 1 .. Len(P) + 1 |-> n], g, {})
<1>1. Len(P) \in Nat /\ DOMAIN P = 1 .. Len(P)
  BY DEF IsSequence
<1> DEFINE at == [n \in 1 .. Len(P) + 1 |-> n]
<1>2. \A n \in 1 .. Len(P) + 1 : at[n] = n
  OBVIOUS
<1>3. at \in [1 .. Len(P) + 1 -> Nat \ {0}] /\ at[1] = 1 /\ at[Len(P) + 1] = Len(P) + 1
  BY <1>1
<1>4. \A n \in DOMAIN P : Kept(P, P, at, n)
  BY <1>1, <1>2 DEF Kept
<1> HIDE DEF at
<1> QED BY <1>3, <1>4 DEF Rewritten, at

\* Nothing is replaced yet.
LEMMA NothingReplaced ==
  ASSUME NEW P, IsSequence(P)
  PROVE  LET at == [n \in 1 .. Len(P) + 1 |-> n]
         IN  Spread(P, P, at) /\ \A n \in DOMAIN P : Untouched(P, P, at, n)
<1>1. Len(P) \in Nat /\ DOMAIN P = 1 .. Len(P)
  BY DEF IsSequence
<1> DEFINE at == [n \in 1 .. Len(P) + 1 |-> n]
<1>2. \A n \in 1 .. Len(P) + 1 : at[n] = n
  OBVIOUS
<1>3. at \in [1 .. Len(P) + 1 -> Nat \ {0}] /\ at[1] = 1 /\ at[Len(P) + 1] = Len(P) + 1
  BY <1>1
<1>4. \A n \in DOMAIN P : Kept(P, P, at, n) /\ at[n] <= at[n + 1]
  BY <1>1, <1>2 DEF Kept
<1>5. ASSUME NEW n \in DOMAIN P PROVE Untouched(P, P, at, n)
  BY <1>1, <1>2 DEF Untouched
<1> HIDE DEF at
<1>6. Spread(P, P, at)
  BY <1>3, <1>4 DEF Spread, Laid
<1> QED BY <1>5, <1>6 DEF at

\* The lines of a file of which blocks are rewritten.
LEMMA LinesOfRewritten ==
  ASSUME NEW Lines, Language(Lines), NEW P, TextFile(Lines, P),
         NEW boundaries, IsCut(Decoded(P), boundaries), NEW g, Tiles(Decoded(P), boundaries, g),
         NEW F, NEW at, NEW W, Rewritten(P, F, at, g, W), NEW m \in DOMAIN F
  PROVE  \/ \E n \in DOMAIN P : /\ F[m] = P[n]
                                /\ P[n].op = "label" \/ \A b \in W : ~InBlock(g, b, Ahead(P, n))
         \/ \E b \in W : IsBest(P, g, b, F[m])
<1>1. IsSequence(P) /\ DOMAIN P = 1 .. Len(P) /\ Len(P) \in Nat
  BY DEF TextFile, IsSequence
<1>2. PICK n \in DOMAIN P : m \in at[n] .. at[n + 1] - 1
  BY <1>1, RewrittenLaid, LaidInside
<1>3. at[n] \in Nat
  BY <1>1 DEF Rewritten
<1>4. at[n + 1] = at[n] + 1 => m = at[n]
  BY <1>2, <1>3
<1>5. at[n + 1] # at[n]
  BY <1>2, <1>3
<1> QED BY <1>4, <1>5 DEF Rewritten, Kept

(***************************************************************************)
(* asm_preproc, and the order of a pass.                                   *)
(***************************************************************************)

\* A line says the same whatever its number.
LEMMA TagTells ==
  ASSUME NEW line, IsLine(line), NEW n \in Nat
  PROVE  LET other == [line EXCEPT !.tag = n]
         IN  /\ other.op = line.op /\ other.dest = line.dest /\ other.args = line.args
             /\ other.guard = line.guard /\ other.label = line.label /\ other.tag = n
BY DEF IsLine

\* g is f with other numbers.
SameText(f, g) ==
  /\ DOMAIN g = DOMAIN f /\ Len(g) = Len(f)
  /\ \A n \in DOMAIN f : /\ g[n].op = f[n].op /\ g[n].dest = f[n].dest
                         /\ g[n].args = f[n].args /\ g[n].guard = f[n].guard
                         /\ g[n].label = f[n].label

\* asm_preproc renumbers a text and leaves what it says.
LEMMA Renumbered ==
  ASSUME NEW Lines, Language(Lines), NEW f, TextFile(Lines, f)
  PROVE  /\ TextFile(Lines, Preprocessed(f)) /\ Numbered(Preprocessed(f))
         /\ SameText(f, Preprocessed(f))
<1> DEFINE g == Preprocessed(f)
<1>1. Len(f) \in Nat /\ DOMAIN f = 1 .. Len(f) /\ LabelsResolve(f)
      /\ \A n \in DOMAIN f : f[n] \in Lines /\ n \in Nat
  BY DEF TextFile, IsSequence
<1>2. g = [n \in 1 .. Len(f) |-> [f[n] EXCEPT !.tag = n]]
  BY <1>1 DEF Preprocessed
<1> HIDE DEF g
<1>3. DOMAIN g = DOMAIN f /\ Len(g) = Len(f) /\ g = [n \in DOMAIN g |-> g[n]]
  <2>1. g = [n \in 1 .. Len(f) |-> g[n]] /\ DOMAIN g = 1 .. Len(f)
    BY <1>2
  <2>2. Len(g) = Len(f)
    <3>1. g \in [1 .. Len(f) -> {g[n] : n \in 1 .. Len(f)}]
      BY <2>1
    <3> QED BY <1>1, <3>1, FunctionIsSequence
  <2> QED BY <1>1, <2>1, <2>2
<1>4. ASSUME NEW n \in DOMAIN f
      PROVE  /\ g[n] \in Lines /\ g[n].tag = n
             /\ g[n].op = f[n].op /\ g[n].dest = f[n].dest
             /\ g[n].args = f[n].args /\ g[n].guard = f[n].guard /\ g[n].label = f[n].label
  <2>1. f[n] \in Lines /\ n \in Nat /\ g[n] = [f[n] EXCEPT !.tag = n]
    BY <1>1, <1>2
  <2>2. IsLine(f[n]) /\ [f[n] EXCEPT !.tag = n] \in Lines
    BY <2>1 DEF Language
  <2> QED BY <2>1, <2>2, TagTells
<1>5. IsSequence(g)
  BY <1>1, <1>3 DEF IsSequence
<1>6. LabelsResolve(g)
  <2>1. LabelsIn(g) = LabelsIn(f)
    BY <1>3, <1>4 DEF LabelsIn
  <2>2. \A m \in LabelsIn(f) : m \in DOMAIN f
    BY DEF LabelsIn
  <2> QED BY <1>1, <1>3, <1>4, <2>1, <2>2 DEF LabelsResolve
<1>7. TextFile(Lines, g)
  BY <1>3, <1>4, <1>5, <1>6 DEF TextFile
<1>8. Numbered(g) /\ SameText(f, g)
  BY <1>3, <1>4 DEF Numbered, SameText
<1> QED BY <1>7, <1>8 DEF g

\* A source is a text of the language.
LEMMA SourcesAreText ==
  ASSUME NEW Lines, Language(Lines), NEW s \in Sources
  PROVE  TextFile(Lines, s)
<1>1. s \in Seq(ToSet(s)) /\ LabelsResolve(s)
  BY SourcesAssumption
<1>2. IsSequence(s)
  <2> DEFINE S == ToSet(s)
  <2> HIDE DEF S
  <2>1. s \in Seq(S)
    BY <1>1 DEF S
  <2> QED BY <2>1 DEF IsSequence
<1> QED BY <1>1, <1>2 DEF TextFile, Language

\* Numbers are not looked at when a file runs.
LEMMA SameStep ==
  ASSUME NEW Lines, Language(Lines), NEW f, TextFile(Lines, f), NEW g, TextFile(Lines, g), SameText(f, g),
         NEW s
  PROVE  ExecuteLine(g, s) = ExecuteLine(f, s)
<1>1. CASE s.pc \notin DOMAIN f
  BY <1>1 DEF ExecuteLine, SameText
<1>2. CASE s.pc \in DOMAIN f
  <2> DEFINE x == f[s.pc]
             y == g[s.pc]
  <2>1. /\ y.op = x.op /\ y.dest = x.dest /\ y.args = x.args /\ y.guard = x.guard /\ y.label = x.label
        /\ s.pc \in DOMAIN g
    BY <1>2 DEF SameText
  <2>2. x.op # "best" /\ LabelsResolve(f) /\ LabelsResolve(g)
    BY <1>2 DEF TextFile, Language, IsLine
  <2>3. Arguments(s.regs, y) = Arguments(s.regs, x)
    BY <2>1 DEF Arguments
  <2>11. Happens(s.regs, y) <=> Happens(s.regs, x)
    BY <2>1, <2>3 DEF Happens
  <2>12. \A r : Result(s.regs, y, r) = Result(s.regs, x, r)
    BY <2>1, <2>3 DEF Result
  <2>4. Assign(s.regs, y) = Assign(s.regs, x)
    <3>1. y.dest = x.dest
      BY <2>1
    <3> HIDE DEF x, y
    <3> QED BY <2>11, <2>12, <3>1 DEF Assign
  <2>13. Exit(y, s.regs) = Exit(x, s.regs)
    BY <2>1, <2>11 DEF Exit
  <2>5. x.op \in LabelBranches => LabelLine(g, y.label) = LabelLine(f, x.label)
    <3> SUFFICES ASSUME x.op \in LabelBranches PROVE LabelLine(g, y.label) = LabelLine(f, x.label)
      OBVIOUS
    <3> DEFINE m == LabelLine(f, x.label)
    <3>1. m \in DOMAIN f /\ f[m].op = "label" /\ f[m].label = x.label
      BY <1>2, <2>2, LabelsAreFound
    <3> HIDE DEF m
    <3>2. m \in DOMAIN g /\ g[m].op = "label" /\ g[m].label = y.label
      BY <2>1, <3>1 DEF SameText
    <3>3. LabelLine(g, g[m].label) = m
      BY <2>2, <3>2, LabelsAreFound
    <3> QED BY <3>2, <3>3 DEF m
  <2>7. CASE x.op = "label"
    <3>1. ExecuteLine(g, s) = At(s.pc + 1, s.seen, s.regs)
      BY <2>1, <2>7, LabelEffect
    <3>2. ExecuteLine(f, s) = At(s.pc + 1, s.seen, s.regs)
      BY <1>2, <2>7, LabelEffect
    <3> QED BY <3>1, <3>2
  <2>8. CASE x.op # "label"
    <3>1. x.op \notin {"label", "best"} /\ y.op \notin {"label", "best"}
      BY <2>1, <2>2, <2>8
    <3>2. /\ Exit(y, s.regs) = "out" => ExecuteLine(g, s) = At(0, s.seen, Assign(s.regs, y))
          /\ Exit(y, s.regs) = "jump" =>
               /\ y.op \in LabelBranches
               /\ ExecuteLine(g, s) = At(LabelLine(g, y.label), Jumped(s.seen, y.label), Assign(s.regs, y))
          /\ Exit(y, s.regs) = "on" => ExecuteLine(g, s) = At(s.pc + 1, s.seen, Assign(s.regs, y))
          /\ Exit(y, s.regs) \in {"out", "jump", "on"}
      BY <2>1, <3>1, InstructionEffect
    <3>3. /\ Exit(x, s.regs) = "out" => ExecuteLine(f, s) = At(0, s.seen, Assign(s.regs, x))
          /\ Exit(x, s.regs) = "jump" =>
               /\ x.op \in LabelBranches
               /\ ExecuteLine(f, s) = At(LabelLine(f, x.label), Jumped(s.seen, x.label), Assign(s.regs, x))
          /\ Exit(x, s.regs) = "on" => ExecuteLine(f, s) = At(s.pc + 1, s.seen, Assign(s.regs, x))
      BY <1>2, <3>1, InstructionEffect
    <3>4. y.label = x.label
      BY <2>1
    <3> HIDE DEF x, y
    <3> QED BY <2>4, <2>5, <2>13, <3>2, <3>3, <3>4
  <2> QED BY <2>7, <2>8
<1> QED BY <1>1, <1>2

\* A text shows the same whatever its numbers.
LEMMA SameTextSeen ==
  ASSUME NEW Lines, NEW Values, Language(Lines), Computes(Lines, Values), StepCounts = Nat,
         NEW f, TextFile(Lines, f), NEW g, TextFile(Lines, g), SameText(f, g),
         NEW regs \in Starts
  PROVE  Sights(g, regs) = Sights(f, regs)
<1> DEFINE p == Run(f, regs)
           q == Run(g, regs)
<1>1. Runnable(Lines, f) /\ Runnable(Lines, g) /\ regs \in States(Values)
  BY TextRuns DEF Computes
<1>2. p[0] = Start(regs) /\ \A n \in Nat : p[n + 1] = ExecuteLine(f, p[n])
  BY <1>1, RunGoes
<1>3. q[0] = Start(regs) /\ \A n \in Nat : q[n + 1] = ExecuteLine(g, q[n])
  BY <1>1, RunGoes
<1>4. Sights(f, regs) = {Sight(p[n]) : n \in Nat} /\ Sights(g, regs) = {Sight(q[n]) : n \in Nat}
  BY DEF Sights
<1> HIDE DEF p, q
<1>5. ASSUME NEW n \in Nat PROVE q[n] = p[n]
  <2> DEFINE Good == {k \in 0 .. n : q[k] = p[k]}
  <2>1. 0 \in Good
    BY <1>2, <1>3
  <2>2. ASSUME NEW k \in 0 .. n - 1, k \in Good PROVE k + 1 \in Good
    <3>1. k \in Nat /\ k + 1 \in 0 .. n
      OBVIOUS
    <3>2. q[k] = p[k]
      BY <2>2
    <3>3. ExecuteLine(g, p[k]) = ExecuteLine(f, p[k])
      BY SameStep
    <3>4. q[k + 1] = p[k + 1]
      BY <1>2, <1>3, <3>1, <3>2, <3>3
    <3> QED BY <3>1, <3>4
  <2>3. n \in Good
    <3> HIDE DEF Good
    <3>1. 0 .. n \subseteq Good
      BY <2>1, <2>2, Counting
    <3> QED BY <3>1
  <2> QED BY <2>3
<1> QED BY <1>4, <1>5

\* In ascending order.
Ascending(q) == \A i, j \in DOMAIN q : i < j => q[i].line < q[j].line

(***************************************************************************)
(* The labels of the file, and of what is still to be put in it.           *)
(***************************************************************************)

\* The allocator is past the labels of the file.
LabelsGiven(f, n) == \A k \in LabelsIn(f) : GivenBefore(n, f[k].label)

\* The code x can be put in f: its labels are given, in neither twice, and its branches go
\* to one of the two.
FitsLabels(f, x, n) ==
  /\ \A k \in LabelsIn(x) : GivenBefore(n, x[k].label)
  /\ \A k \in LabelsIn(x), m \in LabelsIn(f) : x[k].label # f[m].label
  /\ \A k, l \in LabelsIn(x) : x[k].label = x[l].label => k = l
  /\ \A k \in DOMAIN x : x[k].op \in LabelBranches =>
       \/ \E l \in LabelsIn(x) : x[l].label = x[k].label
       \/ \E m \in LabelsIn(f) : f[m].label = x[k].label

DifferentLabels(x, y) == \A k \in LabelsIn(x), l \in LabelsIn(y) : x[k].label # y[l].label

\* So can all the replacements of q, one after the other.
LabelsApart(f, q, n) ==
  /\ LabelsResolve(f) /\ LabelsGiven(f, n)
  /\ \A i \in DOMAIN q : FitsLabels(f, q[i].rewrite, n)
  /\ \A i, j \in DOMAIN q : i # j => DifferentLabels(q[i].rewrite, q[j].rewrite)

\* What is given stays given.
LEMMA GivenLater ==
  ASSUME NEW n \in Nat, NEW c \in Nat, NEW label, GivenBefore(n, label)
  PROVE  GivenBefore(n + c, label)
<1>1. \A m \in 0 .. n - 1 : m \in 0 .. n + c - 1
  OBVIOUS
<1> QED BY <1>1 DEF GivenBefore

\* What FitsLabels says goes on to hold.
LEMMA FitsLater ==
  ASSUME NEW f, NEW x, NEW n \in Nat, NEW c \in Nat, FitsLabels(f, x, n)
  PROVE  FitsLabels(f, x, n + c)
<1>1. \A k \in LabelsIn(x) : GivenBefore(n + c, x[k].label)
  BY GivenLater DEF FitsLabels
<1> QED BY <1>1 DEF FitsLabels

\* The label of an instruction of the file is given.
LEMMA InstructionIsGiven ==
  ASSUME NEW f, LabelsResolve(f), NEW n \in Nat, LabelsGiven(f, n),
         NEW m \in DOMAIN f, IsLine(f[m]), f[m].op # "label"
  PROVE  GivenBefore(n, f[m].label)
<1>1. CASE f[m].op \in LabelBranches
  <2>1. PICK k \in LabelsIn(f) : f[k].label = f[m].label
    BY <1>1 DEF LabelsResolve
  <2> QED BY <2>1 DEF LabelsGiven
<1>2. CASE f[m].op \notin LabelBranches
  <2>1. f[m].label = <<>>
    BY <1>2 DEF IsLine
  <2>2. Len(<<>>) = 0
    OBVIOUS
  <2> QED BY <2>1, <2>2 DEF GivenBefore, OfSource
<1> QED BY <1>1, <1>2

\* The labels of an answer are new, and given from then on.
LEMMA AnswerFits ==
  ASSUME NEW f, LabelsResolve(f), NEW n \in Nat, LabelsGiven(f, n),
         NEW m \in DOMAIN f, NEW S, NEW x \in Seq(S), LabelsAreFresh(f[m], x, n)
  PROVE  /\ Cardinality(LabelsIn(x)) \in Nat
         /\ FitsLabels(f, x, n + Cardinality(LabelsIn(x)))
         /\ \A k \in LabelsIn(x) : ~GivenBefore(n, x[k].label)
<1> DEFINE c == Cardinality(LabelsIn(x))
<1>1. c \in Nat
  <2>1. LabelsIn(x) \subseteq 1 .. Len(x) /\ Len(x) \in Nat
    BY DEF LabelsIn
  <2>2. IsFiniteSet(1 .. Len(x))
    BY <2>1, FS_Interval
  <2> QED BY <2>1, <2>2, FS_Subset, FS_CardinalityType
<1> HIDE DEF c
<1>2. ASSUME NEW k \in LabelsIn(x)
      PROVE  ~GivenBefore(n, x[k].label) /\ GivenBefore(n + c, x[k].label)
  <2>1. PICK i \in n .. n + c - 1 : x[k].label = <<x[k].label[1], i>>
    BY DEF LabelsAreFresh, Fresh, c
  <2> DEFINE h == x[k].label[1]
  <2> HIDE DEF h
  <2>2. x[k].label = <<h, i>>
    BY <2>1 DEF h
  <2>3. Len(<<h, i>>) = 2 /\ <<h, i>>[2] = i
    OBVIOUS
  <2>4. i \notin 0 .. n - 1 /\ i \in 0 .. (n + c) - 1
    BY <1>1, <2>1
  <2> DEFINE new == <<h, i>>
  <2>5. ~OfSource(new) /\ new[2] = i
    BY <2>3 DEF OfSource
  <2> HIDE DEF new
  <2>6. ~GivenBefore(n, new) /\ GivenBefore(n + c, new)
    BY <2>4, <2>5 DEF GivenBefore
  <2> QED BY <2>2, <2>6 DEF new
<1>3. ASSUME NEW k \in LabelsIn(x), NEW i \in LabelsIn(f) PROVE x[k].label # f[i].label
  BY <1>2 DEF LabelsGiven
<1>4. ASSUME NEW k \in DOMAIN x, x[k].op \in LabelBranches
      PROVE  \/ \E l \in LabelsIn(x) : x[l].label = x[k].label
             \/ \E i \in LabelsIn(f) : f[i].label = x[k].label
  <2>1. CASE f[m].op \in LabelBranches /\ x[k].label = f[m].label
    BY <2>1 DEF LabelsResolve
  <2> QED BY <1>4, <2>1 DEF LabelsAreFresh
<1>5. \A k, l \in LabelsIn(x) : x[k].label = x[l].label => k = l
  BY DEF LabelsAreFresh
<1> QED BY <1>1, <1>2, <1>3, <1>4, <1>5 DEF FitsLabels, c

\* Replacement r is behind those of q.
OneMoreOf(q, r, q2) ==
  /\ \A k \in DOMAIN q : k \in DOMAIN q2 /\ q2[k] = q[k]
  /\ \E e \in DOMAIN q2 \ DOMAIN q : q2[e] = r /\ DOMAIN q2 = DOMAIN q \cup {e}

\* The labels of an answer are different from those of the earlier ones.
LEMMA LabelsOfMore ==
  ASSUME NEW f, NEW q, NEW n \in Nat, NEW c \in Nat, LabelsApart(f, q, n), NEW r,
         FitsLabels(f, r.rewrite, n + c), \A k \in LabelsIn(r.rewrite) : ~GivenBefore(n, r.rewrite[k].label),
         NEW q2, OneMoreOf(q, r, q2)
  PROVE  LabelsApart(f, q2, n + c)
<1>1. PICK e \in DOMAIN q2 \ DOMAIN q : q2[e] = r /\ DOMAIN q2 = DOMAIN q \cup {e}
  BY DEF OneMoreOf
<1>2. LabelsResolve(f) /\ LabelsGiven(f, n + c)
  BY GivenLater DEF LabelsApart, LabelsGiven
<1>3. ASSUME NEW i \in DOMAIN q2 PROVE FitsLabels(f, q2[i].rewrite, n + c)
  <2>1. CASE i = e
    BY <1>1, <2>1
  <2>2. CASE i \in DOMAIN q
    <3>1. FitsLabels(f, q[i].rewrite, n)
      BY <2>2 DEF LabelsApart
    <3>2. q2[i] = q[i]
      BY <2>2 DEF OneMoreOf
    <3> QED BY <3>1, <3>2, FitsLater
  <2> QED BY <1>1, <2>1, <2>2
<1>4. ASSUME NEW i \in DOMAIN q
      PROVE  DifferentLabels(q2[i].rewrite, r.rewrite) /\ DifferentLabels(r.rewrite, q2[i].rewrite)
  <2>1. FitsLabels(f, q[i].rewrite, n) /\ q2[i] = q[i]
    BY DEF LabelsApart, OneMoreOf
  <2>2. \A k \in LabelsIn(q[i].rewrite) : GivenBefore(n, q[i].rewrite[k].label)
    BY <2>1 DEF FitsLabels
  <2> QED BY <2>1, <2>2 DEF DifferentLabels
<1>5. ASSUME NEW i \in DOMAIN q2, NEW j \in DOMAIN q2, i # j
      PROVE  DifferentLabels(q2[i].rewrite, q2[j].rewrite)
  <2>1. CASE i \in DOMAIN q /\ j \in DOMAIN q
    BY <1>5, <2>1 DEF LabelsApart, OneMoreOf
  <2>2. CASE i = e /\ j \in DOMAIN q
    BY <1>1, <1>4, <2>2
  <2>3. CASE i \in DOMAIN q /\ j = e
    BY <1>1, <1>4, <2>3
  <2> QED BY <1>1, <1>5, <2>1, <2>2, <2>3
<1> QED BY <1>2, <1>3, <1>5 DEF LabelsApart

\* Each element of q2 is one of q, different ones for different places.
SomeOf(q, q2) ==
  \E from \in [DOMAIN q2 -> DOMAIN q] :
    /\ \A k \in DOMAIN q2 : q2[k] = q[from[k]]
    /\ \A i, j \in DOMAIN q2 : i # j => from[i] # from[j]

\* The order does not matter.
LEMMA LabelsOfSome ==
  ASSUME NEW f, NEW q, NEW n, LabelsApart(f, q, n), NEW q2, SomeOf(q, q2)
  PROVE  LabelsApart(f, q2, n)
BY DEF SomeOf, LabelsApart

\* Where a line of F, and one of the code put for line n, stand then.
OldPlace(n, x, m) == IF m < n THEN m ELSE m + Len(x) - 1
NewPlace(n, l) == n + l - 1

InItsPlace(F, n, x, G) ==
  /\ \A m \in DOMAIN F : m # n => OldPlace(n, x, m) \in DOMAIN G /\ G[OldPlace(n, x, m)] = F[m]
  /\ \A l \in DOMAIN x : NewPlace(n, l) \in DOMAIN G /\ G[NewPlace(n, l)] = x[l]
  /\ \A k \in DOMAIN G : \/ \E m \in DOMAIN F : m # n /\ k = OldPlace(n, x, m)
                         \/ \E l \in DOMAIN x : k = NewPlace(n, l)

\* Every line is in its place, and nothing else is there.
LEMMA InsertedPlaces ==
  ASSUME NEW S, NEW F \in Seq(S), NEW n \in 1 .. Len(F), NEW x \in Seq(S), NEW G \in Seq(S),
         Inserted(F, n, x, G)
  PROVE  InItsPlace(F, n, x, G)
<1> DEFINE d == Len(x)
           t == Len(F)
<1>1. d \in Nat /\ t \in Nat /\ n \in Nat \ {0} /\ n <= t /\ DOMAIN F = 1 .. t /\ DOMAIN x = 1 .. d
      /\ DOMAIN G = 1 .. Len(G) /\ Len(G) = t + d - 1
  BY DEF Inserted
<1>2. /\ \A j \in 1 .. n - 1 : G[j] = F[j]
      /\ \A k \in 1 .. d : G[n + k - 1] = x[k]
      /\ \A j \in n + 1 .. t : G[j + d - 1] = F[j]
  BY DEF Inserted
<1> HIDE DEF d, t
<1>3. ASSUME NEW m \in DOMAIN F, m # n PROVE OldPlace(n, x, m) \in DOMAIN G /\ G[OldPlace(n, x, m)] = F[m]
  <2>1. CASE m < n
    <3>1. OldPlace(n, x, m) = m
      BY <2>1 DEF OldPlace
    <3>2. m \in 1 .. n - 1 /\ m \in 1 .. t + d - 1
      BY <1>1, <2>1
    <3> QED BY <1>1, <1>2, <3>1, <3>2
  <2>2. CASE ~(m < n)
    <3>1. OldPlace(n, x, m) = m + d - 1
      BY <2>2 DEF OldPlace, d
    <3>2. m \in n + 1 .. t /\ m + d - 1 \in 1 .. t + d - 1
      BY <1>1, <1>3, <2>2
    <3> QED BY <1>1, <1>2, <3>1, <3>2
  <2> QED BY <2>1, <2>2
<1>4. ASSUME NEW l \in DOMAIN x PROVE NewPlace(n, l) \in DOMAIN G /\ G[NewPlace(n, l)] = x[l]
  <2>1. l \in 1 .. d /\ n + l - 1 \in 1 .. t + d - 1
    BY <1>1
  <2> QED BY <1>1, <1>2, <2>1 DEF NewPlace
<1>5. ASSUME NEW k \in DOMAIN G
      PROVE  \/ \E m \in DOMAIN F : m # n /\ k = OldPlace(n, x, m)
             \/ \E l \in DOMAIN x : k = NewPlace(n, l)
  <2>1. k \in 1 .. t + d - 1
    BY <1>1
  <2>2. CASE k < n
    <3>1. k \in DOMAIN F /\ k # n
      BY <1>1, <2>1, <2>2
    <3> QED BY <2>2, <3>1 DEF OldPlace
  <2>3. CASE n <= k /\ k < n + d
    <3> DEFINE l == k - n + 1
    <3>1. l \in 1 .. d /\ n + l - 1 = k
      BY <1>1, <2>1, <2>3
    <3> HIDE DEF l
    <3> QED BY <1>1, <3>1 DEF NewPlace
  <2>4. CASE n + d <= k
    <3> DEFINE m == k - d + 1
    <3>1. m \in 1 .. t /\ m # n /\ ~(m < n) /\ m + d - 1 = k
      BY <1>1, <2>1, <2>4
    <3> HIDE DEF m
    <3>2. OldPlace(n, x, m) = k
      BY <3>1 DEF OldPlace, d
    <3> QED BY <1>1, <3>1, <3>2
  <2> QED BY <1>1, <2>1, <2>2, <2>3, <2>4
<1> QED BY <1>3, <1>4, <1>5 DEF InItsPlace

\* A label line of the new file was one of the old file or of the code.
LEMMA LabelsInPlace ==
  ASSUME NEW F, NEW n, F[n].op # "label", NEW x, NEW G, InItsPlace(F, n, x, G)
  PROVE  /\ \A m \in LabelsIn(F) : OldPlace(n, x, m) \in LabelsIn(G) /\ G[OldPlace(n, x, m)] = F[m]
         /\ \A l \in LabelsIn(x) : NewPlace(n, l) \in LabelsIn(G) /\ G[NewPlace(n, l)] = x[l]
         /\ \A k \in LabelsIn(G) :
              \/ \E m \in LabelsIn(F) : k = OldPlace(n, x, m) /\ G[k] = F[m]
              \/ \E l \in LabelsIn(x) : k = NewPlace(n, l) /\ G[k] = x[l]
<1>1. ASSUME NEW m \in LabelsIn(F) PROVE OldPlace(n, x, m) \in LabelsIn(G) /\ G[OldPlace(n, x, m)] = F[m]
  BY DEF LabelsIn, InItsPlace
<1>2. ASSUME NEW l \in LabelsIn(x) PROVE NewPlace(n, l) \in LabelsIn(G) /\ G[NewPlace(n, l)] = x[l]
  BY DEF LabelsIn, InItsPlace
<1>3. ASSUME NEW k \in LabelsIn(G)
      PROVE  \/ \E m \in LabelsIn(F) : k = OldPlace(n, x, m) /\ G[k] = F[m]
             \/ \E l \in LabelsIn(x) : k = NewPlace(n, l) /\ G[k] = x[l]
  BY DEF LabelsIn, InItsPlace
<1> QED BY <1>1, <1>2, <1>3

\* The file keeps its labels when a line is replaced, and the rest can still be put in it.
LEMMA LabelsOfApplied ==
  ASSUME NEW F, NEW n, F[n].op # "label", NEW x, NEW G, InItsPlace(F, n, x, G),
         NEW number, LabelsResolve(F), LabelsGiven(F, number), FitsLabels(F, x, number)
  PROVE  /\ LabelsResolve(G) /\ LabelsGiven(G, number)
         /\ \A y : FitsLabels(F, y, number) /\ DifferentLabels(x, y) => FitsLabels(G, y, number)
<1>1. \A m \in LabelsIn(F) : OldPlace(n, x, m) \in LabelsIn(G) /\ G[OldPlace(n, x, m)] = F[m]
  BY LabelsInPlace
<1>2. \A l \in LabelsIn(x) : NewPlace(n, l) \in LabelsIn(G) /\ G[NewPlace(n, l)] = x[l]
  BY LabelsInPlace
<1>3. \A k \in LabelsIn(G) :
        \/ \E m \in LabelsIn(F) : k = OldPlace(n, x, m) /\ G[k] = F[m]
        \/ \E l \in LabelsIn(x) : k = NewPlace(n, l) /\ G[k] = x[l]
  BY LabelsInPlace
<1>4. ASSUME NEW i \in LabelsIn(G), NEW j \in LabelsIn(G), G[i].label = G[j].label PROVE i = j
  BY <1>3, <1>4 DEF LabelsResolve, FitsLabels
<1>5. ASSUME NEW k \in DOMAIN G, G[k].op \in LabelBranches PROVE \E m \in LabelsIn(G) : G[m].label = G[k].label
  <2>1. CASE \E m \in DOMAIN F : m # n /\ k = OldPlace(n, x, m)
    <3>1. PICK m \in DOMAIN F : m # n /\ k = OldPlace(n, x, m)
      BY <2>1
    <3>2. G[k] = F[m]
      BY <3>1 DEF InItsPlace
    <3>3. PICK i \in LabelsIn(F) : F[i].label = F[m].label
      BY <1>5, <3>2 DEF LabelsResolve
    <3> QED BY <1>1, <3>2, <3>3
  <2>2. CASE \E l \in DOMAIN x : k = NewPlace(n, l)
    <3>1. PICK l \in DOMAIN x : k = NewPlace(n, l) /\ G[k] = x[l]
      BY <2>2 DEF InItsPlace
    <3>2. \/ \E i \in LabelsIn(x) : x[i].label = x[l].label
          \/ \E i \in LabelsIn(F) : F[i].label = x[l].label
      BY <1>5, <3>1 DEF FitsLabels
    <3> QED BY <1>1, <1>2, <3>1, <3>2
  <2> QED BY <2>1, <2>2 DEF InItsPlace
<1>6. LabelsGiven(G, number)
  BY <1>3 DEF LabelsGiven, FitsLabels
<1>7. ASSUME NEW y, FitsLabels(F, y, number), DifferentLabels(x, y) PROVE FitsLabels(G, y, number)
  <2>1. \A k \in LabelsIn(y), m \in LabelsIn(G) : y[k].label # G[m].label
    BY <1>3, <1>7 DEF FitsLabels, DifferentLabels
  <2>2. ASSUME NEW k \in DOMAIN y, y[k].op \in LabelBranches
        PROVE  \/ \E l \in LabelsIn(y) : y[l].label = y[k].label
               \/ \E m \in LabelsIn(G) : G[m].label = y[k].label
    <3>1. \/ \E l \in LabelsIn(y) : y[l].label = y[k].label
          \/ \E m \in LabelsIn(F) : F[m].label = y[k].label
      BY <1>7, <2>2 DEF FitsLabels
    <3> QED BY <1>1, <3>1
  <2> QED BY <1>7, <2>1, <2>2 DEF FitsLabels
<1> QED BY <1>4, <1>5, <1>6, <1>7 DEF LabelsResolve

\* A text has the same labels whatever its numbers.
LEMMA LabelsOfSame ==
  ASSUME NEW f, NEW g, SameText(f, g), NEW n, LabelsGiven(f, n)
  PROVE  LabelsGiven(g, n)
BY DEF SameText, LabelsIn, LabelsGiven

\* Replacements in ascending order are apart: so many are at or behind the one at i.
LEMMA ManyLines ==
  ASSUME NEW m \in Nat, NEW q, DOMAIN q = 1 .. m, \A i \in 1 .. m : q[i].line \in Int, Ascending(q),
         NEW i \in 1 .. m + 1
  PROVE  Cardinality({q[j] : j \in i .. m}) = m - i + 1
<1> DEFINE T == {q[j] : j \in i .. m}
           f == [j \in i .. m |-> q[j]]
<1>1. i \in Int /\ m \in Int /\ i <= m + 1
  OBVIOUS
<1>2. f \in Bijection(i .. m, T)
  <2>1. ASSUME NEW a \in i .. m, NEW b \in i .. m, f[a] = f[b] PROVE a = b
    <3>1. a \in 1 .. m /\ b \in 1 .. m /\ q[a] = q[b] /\ a \in Int /\ b \in Int
      BY <1>1, <2>1
    <3>2. ~(a < b) /\ ~(b < a)
      BY <3>1 DEF Ascending
    <3> QED BY <3>1, <3>2
  <2>2. f \in Injection(i .. m, T)
    BY <2>1 DEF Injection, IsInjective
  <2>3. f \in Surjection(i .. m, T)
    BY DEF Surjection
  <2> QED BY <2>2, <2>3 DEF Bijection
<1>3. IsFiniteSet(i .. m) /\ Cardinality(i .. m) = IF i > m THEN 0 ELSE m - i + 1
  BY <1>1, FS_Interval
<1> HIDE DEF T, f
<1>4. Cardinality(T) = Cardinality(i .. m)
  BY <1>2, <1>3, FS_Bijection DEF ExistsBijection
<1> QED BY <1>1, <1>3, <1>4 DEF T

\* The last replacement of a pass comes first.
LEMMA PassIsReversed ==
  ASSUME NEW m \in Nat, NEW q, DOMAIN q = 1 .. m, \A i \in 1 .. m : q[i].line \in Int, Ascending(q)
  PROVE  LastLineFirst(ToSet(q)) = [k \in 1 .. m |-> q[m + 1 - k]]
<1> DEFINE pass == ToSet(q)
           above(r) == {p \in pass : p.line > r.line}
<1>1. pass = {q[j] : j \in 1 .. m}
  BY DEF ToSet
<1>2. Cardinality(pass) = m
  <2>1. 1 \in 1 .. m + 1
    OBVIOUS
  <2>2. Cardinality({q[j] : j \in 1 .. m}) = m - 1 + 1
    BY <2>1, ManyLines
  <2>3. m - 1 + 1 = m
    OBVIOUS
  <2> QED BY <1>1, <2>2, <2>3
<1>3. ASSUME NEW i \in 1 .. m PROVE Cardinality(above(q[i])) = m - i
  <2>1. above(q[i]) = {q[j] : j \in i + 1 .. m}
    <3>1. ASSUME NEW p \in above(q[i]) PROVE p \in {q[j] : j \in i + 1 .. m}
      <4>1. PICK j \in 1 .. m : p = q[j]
        BY <1>1
      <4>2. ~(j < i) /\ j # i
        BY <3>1, <4>1 DEF Ascending
      <4> QED BY <4>1, <4>2
    <3>2. ASSUME NEW j \in i + 1 .. m PROVE q[j] \in above(q[i])
      <4>1. j \in 1 .. m /\ i < j
        OBVIOUS
      <4>2. q[i].line < q[j].line
        BY <4>1 DEF Ascending
      <4> QED BY <1>1, <4>1, <4>2
    <3> QED BY <3>1, <3>2
  <2>2. i + 1 \in 1 .. m + 1
    OBVIOUS
  <2>3. Cardinality({q[j] : j \in i + 1 .. m}) = m - (i + 1) + 1
    BY <2>2, ManyLines
  <2>4. m - (i + 1) + 1 = m - i
    OBVIOUS
  <2> QED BY <2>1, <2>3, <2>4
<1> HIDE DEF above
<1>4. ASSUME NEW k \in 1 .. m
      PROVE  (CHOOSE r \in pass : Cardinality(above(r)) = k - 1) = q[m + 1 - k]
  <2> DEFINE Fits(r) == Cardinality(above(r)) = k - 1
             i == m + 1 - k
  <2>1. i \in 1 .. m /\ m - i = k - 1
    OBVIOUS
  <2>2. q[i] \in pass /\ Fits(q[i])
    BY <1>1, <1>3, <2>1
  <2>3. ASSUME NEW r \in pass, Fits(r) PROVE r = q[i]
    <3>1. PICK j \in 1 .. m : r = q[j]
      BY <1>1
    <3>2. m - j = k - 1
      BY <1>3, <2>3, <3>1
    <3>3. j = i
      BY <3>2
    <3> QED BY <3>1, <3>3
  <2> HIDE DEF Fits, i, pass
  <2>4. (CHOOSE r \in pass : Fits(r)) = q[i]
    BY <2>2, <2>3
  <2> QED BY <2>4 DEF Fits, i
<1> HIDE DEF pass
<1>5. LastLineFirst(pass) = [k \in 1 .. m |-> CHOOSE r \in pass : Cardinality(above(r)) = k - 1]
  BY <1>2 DEF LastLineFirst, above
<1> QED BY <1>4, <1>5 DEF pass

(***************************************************************************)
(* What the loops see in a block.                                          *)
(***************************************************************************)

\* The blocks are those of what P decodes to.
BlocksOf(Lines, P) ==
  /\ Language(Lines) /\ IsSequence(P) /\ \A n \in DOMAIN P : P[n] \in Lines
  /\ IsProgram(Decoded(P)) /\ program = Decoded(P)
  /\ IsCut(program, ChosenBoundaries(program, split))
  /\ Tiles(program, ChosenBoundaries(program, split), graph)

\* A block is inside the program, and its instructions are lines of the text.
LEMMA BlockBounds ==
  ASSUME NEW Lines, NEW P, BlocksOf(Lines, P), NEW b \in DOMAIN graph
  PROVE  LET s == graph[b].start
             e == graph[b].finish
         IN  /\ s \in Nat \ {0} /\ e \in Nat /\ s < e /\ e <= Len(program) + 1 /\ Len(program) \in Nat
             /\ \A i \in s .. e - 1 :
                  /\ i \in 1 .. Len(InstructionLines(P)) /\ InstructionLines(P)[i] \in DOMAIN P
                  /\ program[i].assemblyLine = InstructionLines(P)[i]
                  /\ program[i].line = P[InstructionLines(P)[i]]
                  /\ Ahead(P, InstructionLines(P)[i]) = i
                  /\ P[InstructionLines(P)[i]].op # "label"
<1> DEFINE s == graph[b].start
           e == graph[b].finish
           ls == InstructionLines(P)
<1>1. s \in Nat \ {0} /\ e \in Nat /\ s < e /\ e <= Len(program) + 1
  BY BlocksApart DEF BlocksOf
<1>2. Len(program) \in Nat /\ Len(program) = Len(ls)
  BY DecodedLines DEF BlocksOf
<1>3. \A i \in 1 .. Len(ls) : /\ program[i].assemblyLine = ls[i] /\ program[i].line = P[ls[i]]
  BY <1>2, DecodedLines DEF BlocksOf, Positions
<1>4. \A i \in 1 .. Len(ls) : ls[i] \in DOMAIN P /\ P[ls[i]].op # "label" /\ Ahead(P, ls[i]) = i
  BY InstructionsNumbered DEF BlocksOf
<1> HIDE DEF s, e, ls
<1>5. \A i \in s .. e - 1 : i \in 1 .. Len(ls)
  BY <1>1, <1>2
<1> QED BY <1>1, <1>2, <1>3, <1>4, <1>5 DEF s, e, ls

\* The program as a function of its positions.
LEMMA DecodedFunction ==
  ASSUME NEW Lines, Language(Lines), NEW P, IsSequence(P), \A n \in DOMAIN P : P[n] \in Lines
  PROVE  Decoded(P) = [i \in 1 .. Len(Decoded(P)) |-> Decoded(P)[i]]
<1>1. DOMAIN InstructionLines(P) = 1 .. Len(InstructionLines(P))
  BY InstructionsNumbered
<1>2. Len(Decoded(P)) = Len(InstructionLines(P))
  BY DecodedLines
<1>3. Decoded(P) = [i \in DOMAIN InstructionLines(P) |-> Decoded(P)[i]]
  BY DEF Decoded
<1> QED BY <1>1, <1>2, <1>3

\* The instructions the loops look at are those of the program, from the start of the block.
LEMMA BlockInstructions ==
  ASSUME NEW Lines, NEW P, BlocksOf(Lines, P), NEW b \in DOMAIN graph
  PROVE  LET s == graph[b].start
             e == graph[b].finish
         IN  /\ DOMAIN Instructions(b) = 1 .. e - s
             /\ \A k \in 1 .. e - s : Instructions(b)[k] = program[s + k - 1]
             /\ \A k \in 1 .. e - s : s + k - 1 \in s .. e - 1
             /\ \A i \in s .. e - 1 : i - s + 1 \in 1 .. e - s /\ Instructions(b)[i - s + 1] = program[i]
<1> DEFINE s == graph[b].start
           e == graph[b].finish
           S == {program[i] : i \in 1 .. Len(program)}
           q == Instructions(b)
<1>1. s \in Nat \ {0} /\ e \in Nat /\ s < e /\ e <= Len(program) + 1 /\ Len(program) \in Nat
  BY BlockBounds
<1>2. program \in Seq(S)
  <2>1. program = [i \in 1 .. Len(program) |-> program[i]]
    BY DecodedFunction DEF BlocksOf
  <2>2. [i \in 1 .. Len(program) |-> program[i]] \in [1 .. Len(program) -> S]
    OBVIOUS
  <2> HIDE DEF S
  <2> QED BY <1>1, <2>1, <2>2, FunctionIsSequence
<1>3. q = SubSeq(program, s, e - 1)
  BY DEF Instructions
<1> HIDE DEF s, e, S, q
<1>4. Len(q) = e - s /\ DOMAIN q = 1 .. e - s /\ \A k \in 1 .. e - s : q[k] = program[s + k - 1]
  BY SMTT(40), <1>1, <1>2, <1>3
<1>5. \A k \in 1 .. e - s : s + k - 1 \in s .. e - 1
  BY <1>1
<1>6. ASSUME NEW i \in s .. e - 1 PROVE i - s + 1 \in 1 .. e - s /\ q[i - s + 1] = program[i]
  <2>1. i - s + 1 \in 1 .. e - s /\ s + (i - s + 1) - 1 = i
    BY <1>1
  <2> QED BY <1>4, <2>1
<1> QED BY <1>4, <1>5, <1>6 DEF s, e, q

\* What replace_assembly does.
LEMMA AssemblyReplaced ==
  ASSUME NEW Lines, NEW P, BlocksOf(Lines, P), NEW b \in DOMAIN graph, NEW F, NEW line
  PROVE  ReplaceAssembly(F, b, line) = FlattenSeq(PartsFor(P, F, graph, b, line))
<1> DEFINE s == graph[b].start
           e == graph[b].finish
           ls == InstructionLines(P)
           tags == {Instructions(b)[i].assemblyLine : i \in DOMAIN Instructions(b)}
<1>1. s \in s .. e - 1 /\ First(b) = program[s]
  <2>1. s \in Nat \ {0} /\ e \in Nat /\ s < e
    BY BlockBounds
  <2> HIDE DEF s, e
  <2> QED BY <2>1 DEF First, s
<1>2. \A i \in s .. e - 1 : program[i].assemblyLine = ls[i]
  BY BlockBounds
<1>3. /\ DOMAIN Instructions(b) = 1 .. e - s
      /\ \A k \in 1 .. e - s : Instructions(b)[k] = program[s + k - 1]
      /\ \A k \in 1 .. e - s : s + k - 1 \in s .. e - 1
      /\ \A i \in s .. e - 1 : i - s + 1 \in 1 .. e - s /\ Instructions(b)[i - s + 1] = program[i]
  BY BlockInstructions
<1>4. LinesOf(P, graph, b) = {ls[i] : i \in s .. e - 1}
  BY DEF LinesOf
<1> HIDE DEF s, e, ls
<1>5. tags = {ls[i] : i \in s .. e - 1}
  <2>1. ASSUME NEW k \in DOMAIN Instructions(b)
        PROVE  Instructions(b)[k].assemblyLine \in {ls[i] : i \in s .. e - 1}
    <3>1. k \in 1 .. e - s
      BY <1>3
    <3> DEFINE i == s + k - 1
    <3>2. i \in s .. e - 1 /\ Instructions(b)[k] = program[i]
      <4>1. Instructions(b)[k] = program[i]
        BY <1>3, <3>1
      <4>2. i \in s .. e - 1
        BY <1>3, <3>1
      <4> QED BY <4>1, <4>2
    <3> HIDE DEF i
    <3> QED BY <1>2, <3>2
  <2>2. ASSUME NEW i \in s .. e - 1 PROVE ls[i] \in tags
    BY SMTT(40), <1>2, <1>3
  <2> QED BY <2>1, <2>2
<1>6. First(b).assemblyLine = ls[s]
  BY <1>1, <1>2
<1> HIDE DEF tags
<1>7. ReplaceAssembly(F, b, line) =
        FlattenSeq([n \in DOMAIN F |-> IF F[n].tag = ls[s] THEN <<line>>
                                       ELSE IF F[n].tag \in tags THEN <<>> ELSE <<F[n]>>])
  BY <1>6 DEF ReplaceAssembly, tags
<1>8. PartsFor(P, F, graph, b, line) =
        [n \in DOMAIN F |-> IF F[n].tag = ls[s] THEN <<line>>
                            ELSE IF F[n].tag \in LinesOf(P, graph, b) THEN <<>> ELSE <<F[n]>>]
  BY DEF PartsFor, ls, s
<1> QED BY <1>4, <1>5, <1>7, <1>8

\* GreenThumb is given the lines of the block and asked to keep what is needed behind it.
LEMMA BestIsAsked ==
  ASSUME NEW Lines, NEW P, BlocksOf(Lines, P), P = assemblyLines, NEW b \in DOMAIN graph,
         liveOut[b] = NeededAfter(program, graph[b].finish - 1)
  PROVE  IsBest(P, graph, b, Best(b))
<1> DEFINE s == graph[b].start
           e == graph[b].finish
           ls == InstructionLines(P)
           body == [i \in DOMAIN Instructions(b) |-> assemblyLines[Instructions(b)[i].assemblyLine]]
<1>1. /\ Best(b).op = "best" /\ Best(b).dest = <<>> /\ Best(b).args = <<>> /\ Best(b).tag = 0
      /\ Best(b).live = liveOut[b] /\ Best(b).body = body
  BY DEF Best
<1>2. /\ DOMAIN Instructions(b) = 1 .. e - s
      /\ \A k \in 1 .. e - s : Instructions(b)[k] = program[s + k - 1]
      /\ \A k \in 1 .. e - s : s + k - 1 \in s .. e - 1
  BY BlockInstructions
<1>3. \A i \in s .. e - 1 : program[i].assemblyLine = ls[i]
  BY BlockBounds
<1> HIDE DEF ls, s, e
<1>4. body = [k \in 1 .. e - s |-> P[ls[s + k - 1]]]
  BY <1>2, <1>3
<1> HIDE DEF body
<1> QED BY <1>1, <1>4 DEF IsBest, BlocksOf, s, e, ls

\* What the conditions on a block say of its lines.
LEMMA BlockConditions ==
  ASSUME NEW Lines, NEW P, BlocksOf(Lines, P), NEW b \in DOMAIN graph
  PROVE  /\ Rewritable(b) => \A i \in graph[b].start .. graph[b].finish - 1 : program[i].branch = "none"
         /\ ~NeedsRewrite(b) => \A i \in graph[b].start .. graph[b].finish - 1 :
                                  P[InstructionLines(P)[i]].op \in Supported
<1> DEFINE s == graph[b].start
           e == graph[b].finish
           ls == InstructionLines(P)
<1>1. /\ DOMAIN Instructions(b) = 1 .. e - s
      /\ \A i \in s .. e - 1 : i - s + 1 \in 1 .. e - s /\ Instructions(b)[i - s + 1] = program[i]
  BY BlockInstructions
<1>2. \A i \in s .. e - 1 : program[i].line = P[ls[i]]
  BY BlockBounds
<1> HIDE DEF s, e, ls
<1>3. ASSUME Rewritable(b), NEW i \in s .. e - 1 PROVE program[i].branch = "none"
  BY <1>1, <1>3 DEF Rewritable
<1>4. ASSUME ~NeedsRewrite(b), NEW i \in s .. e - 1 PROVE P[ls[i]].op \in Supported
  <2>1. SupportsInstruction(program[i])
    BY <1>1, <1>4 DEF NeedsRewrite
  <2> QED BY <1>2, <2>1 DEF SupportsInstruction
<1> QED BY <1>3, <1>4 DEF s, e, ls

\* The first instruction of a block is a line of the text.
LEMMA FirstLine ==
  ASSUME NEW Lines, NEW P, BlocksOf(Lines, P), NEW b \in DOMAIN graph
  PROVE  LET n == InstructionLines(P)[graph[b].start]
         IN  n \in DOMAIN P /\ P[n].op # "label" /\ First(b).line = P[n]
<1> DEFINE s == graph[b].start
<1>1. s \in s .. graph[b].finish - 1
  <2>1. s \in Nat \ {0} /\ graph[b].finish \in Nat /\ s < graph[b].finish
    BY BlockBounds
  <2> HIDE DEF s
  <2> QED BY <2>1
<1> QED BY <1>1, BlockBounds DEF First

\* Every instruction is in a block.
LEMMA InstructionInBlock ==
  ASSUME NEW Lines, NEW P, BlocksOf(Lines, P), NEW n \in DOMAIN P, P[n].op # "label"
  PROVE  \E b \in DOMAIN graph : /\ InBlock(graph, b, Ahead(P, n))
                                 /\ Ahead(P, n) \in graph[b].start .. graph[b].finish - 1
                                 /\ InstructionLines(P)[Ahead(P, n)] = n
<1>1. /\ Ahead(P, n) \in 1 .. Len(InstructionLines(P)) /\ InstructionLines(P)[Ahead(P, n)] = n
      /\ Len(InstructionLines(P)) = Len(program) /\ Len(program) \in Nat
  BY InstructionsNumbered, DecodedLines DEF BlocksOf
<1>2. Ahead(P, n) \in Positions(program)
  BY <1>1 DEF Positions
<1>3. PICK b \in DOMAIN graph : graph[b].start <= Ahead(P, n) /\ Ahead(P, n) < graph[b].finish
  BY <1>2 DEF BlocksOf, Tiles
<1>4. graph[b].start \in Nat /\ graph[b].finish \in Nat
  BY BlockBounds
<1>5. Ahead(P, n) \in graph[b].start .. graph[b].finish - 1
  BY <1>1, <1>3, <1>4
<1> QED BY <1>1, <1>3, <1>5 DEF InBlock

\* Cut at every instruction, a block is one instruction.
LEMMA OneInstruction ==
  ASSUME NEW Lines, NEW P, BlocksOf(Lines, P), split = TRUE, NEW b \in DOMAIN graph
  PROVE  graph[b].finish - 1 = graph[b].start
<1> DEFINE s == graph[b].start
           e == graph[b].finish
<1>1. s \in Nat \ {0} /\ e \in Nat /\ s < e /\ e <= Len(program) + 1 /\ Len(program) \in Nat
  BY BlockBounds
<1>2. ChosenBoundaries(program, split) = 1 .. Len(program) + 1
  BY DEF ChosenBoundaries, SplitBoundaries
<1>3. \A i \in 1 .. Len(program) + 1 : ~Within(graph, b, i)
  BY <1>2, BlocksApart DEF BlocksOf
<1>4. \A i \in 1 .. Len(program) + 1 : ~(s < i /\ i < e)
  BY <1>3 DEF Within
<1> HIDE DEF s, e
<1>5. s + 1 \in 1 .. Len(program) + 1
  BY <1>1
<1> QED BY <1>1, <1>4, <1>5 DEF s, e

(***************************************************************************)
(* The invariant of rewrite_program.                                       *)
(***************************************************************************)

\* P is the text of the program, with the line numbers of asm_preproc.
TextOfProgram(Lines, P) == TextFile(Lines, P) /\ Numbered(P) /\ program = Decoded(P)

\* The hook was asked for replacement r of an instruction of P.
Asked(P, r) ==
  /\ r.line \in DOMAIN P /\ P[r.line].op # "label"
  /\ \E number \in Nat :
       /\ GivenBefore(number, P[r.line].label)
       /\ r.rewrite \in Expansions(P[r.line], Registers \ NeededAfter(Decoded(P), Ahead(P, r.line)), number)

Typed(f) ==
  \A n \in DOMAIN f : /\ f[n].tag \in Nat
                      /\ f[n].dest \in Seq(Registers)
                      /\ f[n].args \in Seq(Registers)

Domains ==
  /\ source \in Sources
  /\ stage \in {"decoded", "scratch", "apply", "blocks", "returned", "panicked"}
  /\ stage \notin {"scratch", "apply"} => replacements = <<>>
  /\ block \in 1 .. Len(graph) + 1
  /\ nextLabel \in Nat
  /\ Loop!WellFormed(graph)
  /\ liveIn \in [DOMAIN graph -> SUBSET Registers]
  /\ liveOut \in [DOMAIN graph -> SUBSET Registers]
  /\ Typed(file)

InAnalysis ==
  /\ stage = "decoded" => phase = "entry"
  /\ stage \in {"scratch", "apply", "blocks"} => phase = "liveliness"
  /\ phase = "liveliness" => InLoop

\* While there is a scratch loop, what it puts in the file goes with the labels there.
Labelled ==
  /\ LabelsKept
  /\ stage \in {"decoded", "scratch", "apply"} => LabelsApart(file, replacements, nextLabel)

AtDecoded(Lines) == stage = "decoded" => TextOfProgram(Lines, file)

\* Replacements are collected in the order of their lines, one for a block at most.
InScratch(Lines) ==
  stage = "scratch" =>
    /\ TextOfProgram(Lines, file) /\ split = TRUE
    /\ IsSequence(replacements) /\ Ascending(replacements)
    /\ \A k \in DOMAIN replacements :
         /\ Asked(file, replacements[k])
         /\ \E b \in DOMAIN graph : /\ b < block
                                    /\ replacements[k].line = InstructionLines(file)[graph[b].start]

\* Lines are replaced from the last one up, so those still to come are where they were.
InApply(Lines) ==
  stage = "apply" =>
    \E P, at :
      /\ TextOfProgram(Lines, P) /\ Spread(P, file, at)
      /\ IsSequence(replacements)
      /\ \A i, j \in DOMAIN replacements : i < j => replacements[j].line < replacements[i].line
      /\ \A k \in DOMAIN replacements :
           Asked(P, replacements[k]) /\ Untouched(P, file, at, replacements[k].line)

InBlocks(Lines) ==
  stage = "blocks" =>
    /\ TextOfProgram(Lines, assemblyLines)
    /\ \E W, at :
         /\ Rewritten(assemblyLines, file, at, graph, W)
         /\ \A b \in DOMAIN graph : b < block => b \in W \/ ~NeedsRewrite(b)

RewriteInv(Lines) ==
  /\ Domains /\ InAnalysis
  /\ AtDecoded(Lines) /\ InScratch(Lines) /\ InApply(Lines) /\ InBlocks(Lines)
  /\ ReturnedIsSupported

\* A text is in its domain.
LEMMA TextIsTyped ==
  ASSUME NEW Lines, Language(Lines), NEW f, TextFile(Lines, f)
  PROVE  Typed(f)
<1> SUFFICES ASSUME NEW n \in DOMAIN f
             PROVE  f[n].tag \in Nat /\ f[n].dest \in Seq(Registers) /\ f[n].args \in Seq(Registers)
  BY DEF Typed
<1>1. IsLine(f[n])
  BY DEF TextFile, Language
<1> QED BY <1>1 DEF IsLine

\* So is a text with blocks rewritten.
LEMMA RewrittenIsTyped ==
  ASSUME NEW Lines, Language(Lines), NEW P, TextFile(Lines, P),
         NEW boundaries, IsCut(Decoded(P), boundaries), NEW g, Tiles(Decoded(P), boundaries, g),
         NEW F, NEW at, NEW W, Rewritten(P, F, at, g, W)
  PROVE  Typed(F)
<1>1. Typed(P)
  BY TextIsTyped
<1> SUFFICES ASSUME NEW m \in DOMAIN F
             PROVE  F[m].tag \in Nat /\ F[m].dest \in Seq(Registers) /\ F[m].args \in Seq(Registers)
  BY DEF Typed
<1>2. CASE \E n \in DOMAIN P : F[m] = P[n]
  BY <1>1, <1>2 DEF Typed
<1>3. CASE \E b \in W : IsBest(P, g, b, F[m])
  <2>1. F[m].tag = 0 /\ F[m].dest = <<>> /\ F[m].args = <<>>
    BY <1>3 DEF IsBest
  <2>2. <<>> \in Seq(Registers)
    OBVIOUS
  <2> QED BY <2>1, <2>2
<1> QED BY <1>2, <1>3, LinesOfRewritten

\* And the state of the analysis.
LEMMA LoopTypesHold ==
  InLoop => /\ Loop!WellFormed(graph)
            /\ liveIn \in [DOMAIN graph -> SUBSET Registers]
            /\ liveOut \in [DOMAIN graph -> SUBSET Registers]
BY LoopTypes

\* Between the steps of the analysis its blocks are those of the text.
LEMMA BlocksAreOf ==
  ASSUME NEW Lines, Language(Lines), NEW P, TextOfProgram(Lines, P), InLoop
  PROVE  BlocksOf(Lines, P)
<1>1. /\ IsSequence(P) /\ IsProgram(Decoded(P)) /\ program = Decoded(P)
      /\ \A n \in DOMAIN P : P[n] \in Lines
  BY DecodedIsProgram DEF TextOfProgram, TextFile
<1>2. /\ IsCut(program, ChosenBoundaries(program, split))
      /\ Tiles(program, ChosenBoundaries(program, split), graph)
  BY BuiltBlocks DEF InLoop
<1> QED BY <1>1, <1>2 DEF BlocksOf

\* The invariant holds when rewrite_program is called.
LEMMA RewriteBegins ==
  ASSUME NEW Lines, Language(Lines), Init
  PROVE  RewriteInv(Lines)
<1>1. TextFile(Lines, Preprocessed(source)) /\ Numbered(Preprocessed(source))
  BY SourcesAreText, Renumbered DEF Init
<1>2. Typed(file)
  BY <1>1, TextIsTyped DEF Init
<1>3. Domains
  BY <1>2 DEF Init, Domains, Loop!WellFormed
<1>4. AtDecoded(Lines)
  BY <1>1 DEF Init, AtDecoded, TextOfProgram
<1>5. InAnalysis /\ InScratch(Lines) /\ InApply(Lines) /\ InBlocks(Lines) /\ ReturnedIsSupported
  BY DEF Init, InAnalysis, InScratch, InApply, InBlocks, ReturnedIsSupported
<1> QED BY <1>3, <1>4, <1>5 DEF RewriteInv

\* Both analyses begin.
LEMMA AnalysisBegins ==
  ASSUME NEW Lines, Language(Lines), NEW P, TextOfProgram(Lines, P), NEW s \in BOOLEAN, FromProgram(s)
  PROVE  /\ InLoop' /\ phase' = "liveliness" /\ program' = program /\ split' = s
         /\ Loop!WellFormed(graph')
         /\ liveIn' \in [DOMAIN graph' -> SUBSET Registers]
         /\ liveOut' \in [DOMAIN graph' -> SUBSET Registers]
         /\ 1 \in 1 .. Len(graph') + 1
<1>1. IsProgram(program)
  BY DecodedIsProgram DEF TextOfProgram
<1>2. InLoop'
  BY <1>1, BuiltForLoop
<1>3. (InLoop => /\ Loop!WellFormed(graph)
                 /\ liveIn \in [DOMAIN graph -> SUBSET Registers]
                 /\ liveOut \in [DOMAIN graph -> SUBSET Registers])'
  BY LoopTypesHold, PTL
<1>4. Len(graph') \in Nat
  BY <1>2, <1>3 DEF Loop!WellFormed
<1> QED BY <1>2, <1>3, <1>4 DEF FromProgram

\* The analysis at the start of a pass is made of the file as it is.
LEMMA StartKeeps ==
  ASSUME NEW Lines, Language(Lines), RewriteInv(Lines), StartPass
  PROVE  RewriteInv(Lines)'
<1>1. TextOfProgram(Lines, file) /\ stage = "decoded" /\ replacements = <<>>
  BY DEF RewriteInv, AtDecoded, StartPass, Domains
<1>2. /\ InLoop' /\ phase' = "liveliness" /\ program' = program /\ split' = TRUE
      /\ Loop!WellFormed(graph')
      /\ liveIn' \in [DOMAIN graph' -> SUBSET Registers]
      /\ liveOut' \in [DOMAIN graph' -> SUBSET Registers]
      /\ 1 \in 1 .. Len(graph') + 1
  BY <1>1, AnalysisBegins DEF StartPass
<1>3. stage' = "scratch" /\ block' = 1 /\ UNCHANGED <<source, file, replacements, assemblyLines, nextLabel>>
  BY DEF StartPass
<1>4. Domains'
  BY <1>2, <1>3 DEF RewriteInv, Domains, Typed
<1>5. InScratch(Lines)'
  <2>1. IsSequence(<<>>) /\ DOMAIN <<>> = {}
    BY DEF IsSequence
  <2>2. TextOfProgram(Lines, file)'
    BY <1>1, <1>2, <1>3 DEF TextOfProgram
  <2>3. replacements' = <<>>
    BY <1>1, <1>3
  <2> QED BY <1>2, <2>1, <2>2, <2>3 DEF InScratch, Ascending
<1>6. InAnalysis' /\ AtDecoded(Lines)' /\ InApply(Lines)' /\ InBlocks(Lines)' /\ ReturnedIsSupported'
  BY <1>2, <1>3 DEF InAnalysis, AtDecoded, InApply, InBlocks, ReturnedIsSupported
<1> QED BY <1>4, <1>5, <1>6 DEF RewriteInv

\* A panic of the analysis leaves the rest.
LEMMA PanicAtStartKeeps ==
  ASSUME NEW Lines, Language(Lines), RewriteInv(Lines), PanicAtStart
  PROVE  RewriteInv(Lines)'
<1>1. /\ stage = "decoded" /\ stage' = "panicked" /\ phase' = "panicked"
      /\ UNCHANGED <<source, file, replacements, block, assemblyLines, nextLabel, graph, liveIn, liveOut>>
  BY DEF PanicAtStart, PanicInAnalysis, loopVars
<1>2. Domains'
  BY <1>1 DEF RewriteInv, Domains, Typed, Loop!WellFormed
<1> QED BY <1>1, <1>2
        DEF RewriteInv, InAnalysis, AtDecoded, InScratch, InApply, InBlocks, ReturnedIsSupported

\* A step that leaves the analysis alone keeps what is known of it.
LEMMA AnalysisStays ==
  ASSUME InAnalysis, UNCHANGED analysisVars
  PROVE  /\ UNCHANGED <<program, split, phase, graph, liveIn, liveOut, done>>
         /\ phase = "liveliness" => InLoop'
<1>1. UNCHANGED <<program, split, phase, graph, liveIn, liveOut, done>> /\ UNCHANGED loopVars
  BY DEF analysisVars, loopVars
<1>2. phase = "liveliness" => InLoop'
  BY <1>1, LoopKeeps DEF InAnalysis
<1> QED BY <1>1, <1>2

\* The analysis changes neither the file nor the blocks.
LEMMA RunAnalysisKeeps ==
  ASSUME NEW Lines, Language(Lines), RewriteInv(Lines), RunAnalysis
  PROVE  RewriteInv(Lines)'
<1>1. phase = "liveliness" /\ InLoop /\ UNCHANGED <<program, split, phase>>
      /\ UNCHANGED <<source, file, stage, replacements, block, assemblyLines, nextLabel>> /\ ComputeLiveliness
  BY DEF RunAnalysis, ComputeLiveliness, RewriteInv, InAnalysis
<1>2. InLoop' /\ graph' = graph
  BY <1>1, LoopKeeps
<1>3. (InLoop => /\ Loop!WellFormed(graph)
                 /\ liveIn \in [DOMAIN graph -> SUBSET Registers]
                 /\ liveOut \in [DOMAIN graph -> SUBSET Registers])'
  BY LoopTypesHold, PTL
<1>4. Domains'
  BY <1>1, <1>2, <1>3 DEF RewriteInv, Domains, Typed
<1>5. InAnalysis'
  BY <1>1, <1>2 DEF RewriteInv, InAnalysis
<1>6. \A b : NeedsRewrite(b)' = NeedsRewrite(b)
  BY <1>1, <1>2 DEF NeedsRewrite, Instructions
<1>7. AtDecoded(Lines)' /\ ReturnedIsSupported'
  BY <1>1 DEF RewriteInv, AtDecoded, TextOfProgram, ReturnedIsSupported
<1>8. InScratch(Lines)'
  BY <1>1, <1>2 DEF RewriteInv, InScratch, TextOfProgram, Ascending
<1>9. InApply(Lines)'
  BY <1>1 DEF RewriteInv, InApply, TextOfProgram
<1>10. InBlocks(Lines)'
  BY <1>1, <1>2, <1>6 DEF RewriteInv, InBlocks, TextOfProgram
<1> QED BY <1>4, <1>5, <1>7, <1>8, <1>9, <1>10 DEF RewriteInv

\* A block that is skipped needs no rewrite.
LEMMA SkipKeeps ==
  ASSUME NEW Lines, Language(Lines), RewriteInv(Lines), SkipBlock
  PROVE  RewriteInv(Lines)'
<1>1. /\ stage \in {"scratch", "blocks"} /\ block \in DOMAIN graph /\ ~NeedsRewrite(block) /\ block' = block + 1
      /\ UNCHANGED <<source, file, stage, replacements, assemblyLines, nextLabel, analysisVars>>
  BY DEF SkipBlock, LookingAtBlock
<1>2. /\ UNCHANGED <<program, split, phase, graph, liveIn, liveOut, done>>
      /\ phase = "liveliness" => InLoop'
  BY <1>1, AnalysisStays DEF RewriteInv
<1>3. DOMAIN graph = 1 .. Len(graph) /\ Len(graph) \in Nat
  BY DEF RewriteInv, Domains, Loop!WellFormed
<1>4. block \in Nat /\ block' \in 1 .. Len(graph) + 1
  BY <1>1, <1>3
<1>5. Domains'
  BY <1>1, <1>2, <1>4 DEF RewriteInv, Domains, Typed, Loop!WellFormed
<1>6. InAnalysis'
  BY <1>1, <1>2 DEF RewriteInv, InAnalysis
<1>7. \A b : NeedsRewrite(b)' = NeedsRewrite(b)
  BY <1>2 DEF NeedsRewrite, Instructions
<1>8. AtDecoded(Lines)' /\ ReturnedIsSupported' /\ InApply(Lines)'
  BY <1>1 DEF AtDecoded, InApply, ReturnedIsSupported
<1>9. \A b \in DOMAIN graph : b < block => b < block'
  BY <1>1, <1>3, <1>4
<1>10. InScratch(Lines)'
  BY <1>1, <1>2, <1>9 DEF RewriteInv, InScratch, TextOfProgram, Ascending
<1>11. \A b \in DOMAIN graph : b < block' => b < block \/ b = block
  BY <1>1, <1>3, <1>4
<1>12. InBlocks(Lines)'
  BY <1>1, <1>2, <1>7, <1>11 DEF RewriteInv, InBlocks, TextOfProgram
<1> QED BY <1>5, <1>6, <1>8, <1>10, <1>12 DEF RewriteInv

\* A sequence with one more element.
LEMMA OneMore ==
  ASSUME NEW q, IsSequence(q)
  PROVE  \A r : /\ IsSequence(Append(q, r)) /\ DOMAIN Append(q, r) = 1 .. Len(q) + 1
                /\ \A k \in DOMAIN q : Append(q, r)[k] = q[k]
                /\ Append(q, r)[Len(q) + 1] = r
<1>1. ASSUME NEW r
      PROVE  /\ IsSequence(Append(q, r)) /\ DOMAIN Append(q, r) = 1 .. Len(q) + 1
             /\ \A k \in DOMAIN q : Append(q, r)[k] = q[k]
             /\ Append(q, r)[Len(q) + 1] = r
  <2> DEFINE S == {q[k] : k \in DOMAIN q} \cup {r}
  <2>1. Len(q) \in Nat /\ DOMAIN q = 1 .. Len(q)
    BY DEF IsSequence
  <2>2. \A k \in 1 .. Len(q) : q[k] \in S
    BY <2>1
  <2>3. r \in S
    OBVIOUS
  <2> HIDE DEF S
  <2>4. q \in Seq(S)
    BY <2>2, SequenceOfElements
  <2> DEFINE z == Append(q, r)
  <2>7. z \in Seq(S) /\ Len(z) = Len(q) + 1
    BY <2>3, <2>4
  <2>8. /\ \A k \in 1 .. Len(q) : z[k] = q[k]
        /\ z[Len(q) + 1] = r
    BY <2>1, <2>3, <2>4
  <2> HIDE DEF z
  <2>9. IsSequence(z) /\ DOMAIN z = 1 .. Len(q) + 1
    BY <2>1, <2>7 DEF IsSequence
  <2> QED BY <2>1, <2>8, <2>9 DEF z
<1> QED BY <1>1

\* The labels of an answer go with those of the file and of the other answers.
LEMMA AskLabels ==
  ASSUME NEW Lines, Language(Lines), RewriteInv(Lines), Labelled, AskForReplacement
  PROVE  LabelsApart(file, replacements', nextLabel') /\ nextLabel' \in Nat
<1>1. stage = "scratch" /\ block \in DOMAIN graph
  BY DEF AskForReplacement, LookingAtBlock
<1>2. LabelsApart(file, replacements, nextLabel) /\ nextLabel \in Nat
  BY <1>1 DEF Labelled, RewriteInv, Domains
<1>3. CASE UNCHANGED <<replacements, nextLabel>>
  BY <1>2, <1>3
<1>4. CASE ~UNCHANGED <<replacements, nextLabel>>
  <2>1. PICK x \in Offers(block) :
          /\ replacements' = Append(replacements, [line |-> First(block).assemblyLine, rewrite |-> x])
          /\ nextLabel' = nextLabel + Cardinality(LabelsIn(x))
    BY <1>4 DEF AskForReplacement
  <2> DEFINE r == [line |-> First(block).assemblyLine, rewrite |-> x]
             n == InstructionLines(file)[graph[block].start]
             c == Cardinality(LabelsIn(x))
  <2>2. TextOfProgram(Lines, file) /\ IsSequence(replacements) /\ BlocksOf(Lines, file)
    <3>1. TextOfProgram(Lines, file) /\ IsSequence(replacements) /\ InLoop
      BY <1>1 DEF RewriteInv, InScratch, InAnalysis
    <3> QED BY <3>1, BlocksAreOf
  <2>3. n \in DOMAIN file /\ file[n].op # "label" /\ First(block).line = file[n]
    BY <1>1, <2>2, FirstLine
  <2> HIDE DEF n
  <2>4. file[n] \in Lines /\ IsLine(file[n]) /\ LabelsResolve(file) /\ LabelsGiven(file, nextLabel)
    BY <1>2, <2>2, <2>3 DEF TextOfProgram, TextFile, Language, LabelsApart
  <2>5. GivenBefore(nextLabel, file[n].label)
    BY <1>2, <2>3, <2>4, InstructionIsGiven
  <2>6. x \in Seq(Lines) /\ LabelsAreFresh(file[n], x, nextLabel)
    <3>1. x \in Expansions(file[n], Scratchable(block), nextLabel) /\ Scratchable(block) \in SUBSET Registers
      BY <2>3 DEF Offers, Scratchable
    <3> QED BY <1>2, <2>3, <2>4, <2>5, <3>1 DEF Language
  <2>7. /\ c \in Nat /\ FitsLabels(file, x, nextLabel + c)
        /\ \A k \in LabelsIn(x) : ~GivenBefore(nextLabel, x[k].label)
    BY <1>2, <2>3, <2>4, <2>6, AnswerFits
  <2>8. r.rewrite = x
    OBVIOUS
  <2>9. replacements' = Append(replacements, r) /\ nextLabel' = nextLabel + c
    BY <2>1
  <2> HIDE DEF r, c
  <2>10. OneMoreOf(replacements, r, replacements')
    <3> DEFINE e == Len(replacements) + 1
    <3>1. /\ DOMAIN replacements' = 1 .. e
          /\ \A k \in DOMAIN replacements : replacements'[k] = replacements[k]
          /\ replacements'[e] = r
      BY <2>2, <2>9, OneMore
    <3>2. DOMAIN replacements = 1 .. Len(replacements) /\ Len(replacements) \in Nat
      BY <2>2 DEF IsSequence
    <3>3. e \in 1 .. e /\ e \notin 1 .. Len(replacements) /\ 1 .. e = 1 .. Len(replacements) \cup {e}
      BY <3>2
    <3> HIDE DEF e
    <3> QED BY <3>1, <3>2, <3>3 DEF OneMoreOf
  <2>11. LabelsApart(file, replacements', nextLabel + c)
    BY <1>2, <2>7, <2>8, <2>10, LabelsOfMore
  <2>12. nextLabel + c \in Nat
    BY <1>2, <2>7
  <2> QED BY <2>9, <2>11, <2>12
<1> QED BY <1>3, <1>4

\* What the hook answers is for the one instruction of the block, with the registers dead behind it.
LEMMA AskKeeps ==
  ASSUME NEW Lines, Language(Lines), RewriteInv(Lines), Labelled, AskForReplacement
  PROVE  RewriteInv(Lines)'
<1>1. /\ stage = "scratch" /\ done /\ block \in DOMAIN graph /\ block' = block + 1
      /\ UNCHANGED <<source, file, stage, assemblyLines, analysisVars>>
  BY DEF AskForReplacement, LookingAtBlock
<1>2. /\ UNCHANGED <<program, split, phase, graph, liveIn, liveOut, done>>
      /\ phase = "liveliness" => InLoop'
  BY <1>1, AnalysisStays DEF RewriteInv
<1>3. DOMAIN graph = 1 .. Len(graph) /\ Len(graph) \in Nat
  BY DEF RewriteInv, Domains, Loop!WellFormed
<1>4. block \in Nat /\ block' \in 1 .. Len(graph) + 1
  BY <1>1, <1>3
<1>5. Domains'
  <2>1. nextLabel' \in Nat
    BY AskLabels
  <2> QED BY <1>1, <1>2, <1>4, <2>1 DEF RewriteInv, Domains, Typed, Loop!WellFormed
<1>6. InAnalysis'
  BY <1>1, <1>2 DEF RewriteInv, InAnalysis
<1>7. AtDecoded(Lines)' /\ ReturnedIsSupported' /\ InApply(Lines)' /\ InBlocks(Lines)'
  BY <1>1 DEF AtDecoded, InApply, InBlocks, ReturnedIsSupported
<1>8. /\ TextOfProgram(Lines, file) /\ split = TRUE
      /\ IsSequence(replacements) /\ Ascending(replacements)
      /\ \A k \in DOMAIN replacements :
           /\ Asked(file, replacements[k])
           /\ \E b \in DOMAIN graph : /\ b < block
                                      /\ replacements[k].line = InstructionLines(file)[graph[b].start]
  BY <1>1 DEF RewriteInv, InScratch
<1>9. BlocksOf(Lines, file) /\ InLoop
  <2>1. InLoop
    BY <1>1 DEF RewriteInv, InAnalysis
  <2> QED BY <1>8, <2>1, BlocksAreOf
<1> DEFINE ls == InstructionLines(file)
           s == graph[block].start
<1>10. /\ s \in s .. graph[block].finish - 1
       /\ s \in 1 .. Len(ls) /\ ls[s] \in DOMAIN file /\ Ahead(file, ls[s]) = s
       /\ file[ls[s]].op # "label" /\ program[s].assemblyLine = ls[s] /\ program[s].line = file[ls[s]]
  <2>1. s \in Nat \ {0} /\ graph[block].finish \in Nat /\ s < graph[block].finish
    BY <1>1, <1>9, BlockBounds
  <2>2. s \in s .. graph[block].finish - 1
    <3> HIDE DEF s
    <3> QED BY <2>1
  <2> QED BY <1>1, <1>9, <2>2, BlockBounds
<1>11. First(block).assemblyLine = ls[s] /\ First(block).line = file[ls[s]]
  BY <1>10 DEF First
<1>12. Scratchable(block) = Registers \ NeededAfter(Decoded(file), Ahead(file, ls[s]))
  <2>1. liveOut[block] = NeededAfter(program, graph[block].finish - 1)
    BY <1>1, <1>9, ReturnedIsExact
  <2>2. graph[block].finish - 1 = s
    BY <1>1, <1>8, <1>9, OneInstruction
  <2>3. program = Decoded(file)
    BY <1>8 DEF TextOfProgram
  <2> QED BY <1>10, <2>1, <2>2, <2>3 DEF Scratchable
<1>13. \A k \in DOMAIN replacements : replacements[k].line < ls[s]
  <2> SUFFICES ASSUME NEW k \in DOMAIN replacements PROVE replacements[k].line < ls[s]
    OBVIOUS
  <2>1. PICK b \in DOMAIN graph : b < block /\ replacements[k].line = ls[graph[b].start]
    BY <1>8
  <2> DEFINE t == graph[b].start
  <2>2. /\ t \in Nat \ {0} /\ graph[b].finish \in Nat /\ t < graph[b].finish
    BY <1>9, BlockBounds
  <2>3. graph[b].finish <= s
    BY <1>1, <1>9, <2>1 DEF BlocksOf, Tiles
  <2>4. s \in Nat
    BY <1>10
  <2> HIDE DEF s, t
  <2>5. t < s
    BY <2>2, <2>3, <2>4 
  <2>6. t \in t .. graph[b].finish - 1
    BY <2>2
  <2>7. t \in 1 .. Len(ls)
    BY <1>9, <2>6, BlockBounds DEF t
  <2>8. \A i, j \in 1 .. Len(ls) : i < j => ls[i] < ls[j]
    BY <1>9, InstructionsNumbered DEF BlocksOf
  <2> QED BY <1>10, <2>1, <2>5, <2>7, <2>8 DEF t
<1>15. CASE UNCHANGED replacements
  <2>2. \A b \in DOMAIN graph : b < block => b < block'
    BY <1>1, <1>3, <1>4
  <2>3. InScratch(Lines)'
    BY <1>1, <1>2, <1>8, <1>15, <2>2 DEF InScratch, TextOfProgram, Ascending
  <2> QED BY <1>5, <1>6, <1>7, <2>3 DEF RewriteInv
<1>16. CASE ~UNCHANGED replacements
  <2>1. PICK x \in Offers(block) :
          replacements' = Append(replacements, [line |-> First(block).assemblyLine, rewrite |-> x])
    BY <1>16 DEF AskForReplacement
  <2> DEFINE r == [line |-> First(block).assemblyLine, rewrite |-> x]
             L == Len(replacements)
  <2>2. r.line = ls[s] /\ r.rewrite = x
    BY <1>11
  <2>3. Asked(file, r)
    <3>1. IsLine(file[ls[s]]) /\ LabelsResolve(file) /\ LabelsGiven(file, nextLabel) /\ nextLabel \in Nat
      BY <1>1, <1>8, <1>10
         DEF TextOfProgram, TextFile, Language, Labelled, LabelsApart, RewriteInv, Domains
    <3>2. GivenBefore(nextLabel, file[ls[s]].label)
      BY <1>10, <3>1, InstructionIsGiven
    <3>3. x \in Expansions(file[ls[s]], Registers \ NeededAfter(Decoded(file), Ahead(file, ls[s])), nextLabel)
      BY <1>11, <1>12 DEF Offers
    <3> HIDE DEF r
    <3> QED BY <1>10, <2>2, <3>1, <3>2, <3>3 DEF Asked
  <2> HIDE DEF r
  <2>4. replacements' = Append(replacements, r)
    BY <2>1 DEF r
  <2>5. /\ IsSequence(replacements') /\ DOMAIN replacements' = 1 .. L + 1
        /\ \A k \in DOMAIN replacements : replacements'[k] = replacements[k]
        /\ replacements'[L + 1] = r
    BY SMTT(40), <1>8, <2>4, OneMore
  <2>6. DOMAIN replacements = 1 .. L /\ L \in Nat
    BY <1>8 DEF IsSequence
  <2>7. \A k \in DOMAIN replacements' : k \in DOMAIN replacements \/ k = L + 1
    BY <2>5, <2>6
  <2>8. ASSUME NEW k \in DOMAIN replacements'
        PROVE  /\ Asked(file, replacements'[k])
               /\ \E b \in DOMAIN graph : /\ b < block'
                                          /\ replacements'[k].line = ls[graph[b].start]
    <3>1. CASE k \in DOMAIN replacements
      <4>1. PICK b \in DOMAIN graph : b < block /\ replacements[k].line = ls[graph[b].start]
        BY <1>8, <3>1
      <4>2. b < block'
        BY <1>1, <1>3, <1>4, <4>1
      <4> QED BY <1>8, <2>5, <3>1, <4>1, <4>2
    <3>2. CASE k = L + 1
      <4>1. block < block'
        BY <1>1, <1>4
      <4> QED BY <1>1, <2>2, <2>3, <2>5, <3>2, <4>1
    <3> QED BY <2>7, <3>1, <3>2
  <2>9. ASSUME NEW i \in DOMAIN replacements', NEW j \in DOMAIN replacements', i < j
        PROVE  replacements'[i].line < replacements'[j].line
    <3>1. i \in DOMAIN replacements /\ (j \in DOMAIN replacements \/ j = L + 1)
      BY <2>5, <2>6, <2>9
    <3>2. CASE j \in DOMAIN replacements
      BY <1>8, <2>5, <2>9, <3>1, <3>2 DEF Ascending
    <3>3. CASE j = L + 1
      BY <1>13, <2>2, <2>5, <3>1, <3>3
    <3> QED BY <3>1, <3>2, <3>3
  <2>10. InScratch(Lines)'
    BY <1>1, <1>2, <1>8, <2>5, <2>8, <2>9 DEF InScratch, TextOfProgram, Ascending
  <2> QED BY <1>5, <1>6, <1>7, <2>10 DEF RewriteInv
<1> QED BY <1>15, <1>16

\* The pass is sorted, and no line is replaced yet.
LEMMA SortKeeps ==
  ASSUME NEW Lines, Language(Lines), RewriteInv(Lines), SortReplacements
  PROVE  RewriteInv(Lines)'
<1>1. /\ stage = "scratch" /\ stage' = "apply" /\ replacements' = LastLineFirst(ToSet(replacements))
      /\ UNCHANGED <<source, file, block, assemblyLines, nextLabel, analysisVars>>
  BY DEF SortReplacements, LookedAtAll
<1>2. /\ UNCHANGED <<program, split, phase, graph, liveIn, liveOut, done>>
      /\ phase = "liveliness" => InLoop'
  BY <1>1, AnalysisStays DEF RewriteInv
<1>3. Domains'
  BY <1>1, <1>2 DEF RewriteInv, Domains, Typed, Loop!WellFormed
<1>4. InAnalysis'
  BY <1>1, <1>2 DEF RewriteInv, InAnalysis
<1>5. AtDecoded(Lines)' /\ InScratch(Lines)' /\ ReturnedIsSupported' /\ InBlocks(Lines)'
  BY <1>1 DEF AtDecoded, InScratch, InBlocks, ReturnedIsSupported
<1>6. /\ TextOfProgram(Lines, file) /\ IsSequence(replacements) /\ Ascending(replacements)
      /\ \A k \in DOMAIN replacements : Asked(file, replacements[k])
  BY <1>1 DEF RewriteInv, InScratch
<1> DEFINE m == Len(replacements)
<1>7. /\ m \in Nat /\ DOMAIN replacements = 1 .. m /\ IsSequence(file)
      /\ DOMAIN file = 1 .. Len(file)
  BY <1>6 DEF IsSequence, TextOfProgram, TextFile
<1>8. \A k \in 1 .. m : replacements[k].line \in Int /\ replacements[k].line \in DOMAIN file
  <2>1. \A k \in 1 .. m : replacements[k].line \in DOMAIN file
    BY <1>6, <1>7 DEF Asked
  <2>2. DOMAIN file \subseteq Int
    BY <1>7
  <2> QED BY <2>1, <2>2
<1>9. replacements' = [k \in 1 .. m |-> replacements[m + 1 - k]]
  BY <1>1, <1>6, <1>7, <1>8, PassIsReversed
<1>10. \A k \in 1 .. m : m + 1 - k \in 1 .. m /\ \A i \in 1 .. m : i < k => m + 1 - k < m + 1 - i
  BY <1>7
<1> HIDE DEF m
<1>11. IsSequence(replacements') /\ DOMAIN replacements' = 1 .. m
  <2>1. DOMAIN replacements' = 1 .. m /\ replacements' = [k \in DOMAIN replacements' |-> replacements'[k]]
    BY <1>9
  <2>2. Len(replacements') = m
    BY <1>7, <2>1
  <2> QED BY <1>7, <2>1, <2>2 DEF IsSequence
<1> DEFINE at == [n \in 1 .. Len(file) + 1 |-> n]
<1>12. Spread(file, file, at) /\ \A n \in DOMAIN file : Untouched(file, file, at, n)
  BY <1>7, NothingReplaced
<1> HIDE DEF at
<1>13. \A i, j \in DOMAIN replacements' : i < j => replacements'[j].line < replacements'[i].line
  BY <1>6, <1>7, <1>9, <1>10, <1>11 DEF Ascending
<1>14. \A k \in DOMAIN replacements' :
         Asked(file, replacements'[k]) /\ Untouched(file, file, at, replacements'[k].line)
  BY <1>6, <1>7, <1>8, <1>9, <1>10, <1>11, <1>12
<1>15. InApply(Lines)'
  <2>1. TextOfProgram(Lines, file)' /\ file' = file
    BY <1>1, <1>2, <1>6 DEF TextOfProgram
  <2>2. \E P, o :
          /\ (TextFile(Lines, P) /\ Numbered(P) /\ program' = Decoded(P)) /\ Spread(P, file', o)
          /\ IsSequence(replacements')
          /\ \A i, j \in DOMAIN replacements' : i < j => replacements'[j].line < replacements'[i].line
          /\ \A k \in DOMAIN replacements' :
               Asked(P, replacements'[k]) /\ Untouched(P, file', o, replacements'[k].line)
    <3> WITNESS file, at
    <3> QED BY <1>2, <1>6, <1>11, <1>12, <1>13, <1>14, <2>1 DEF TextOfProgram
  <2> QED BY <2>2 DEF InApply, TextOfProgram
<1> QED BY <1>3, <1>4, <1>5, <1>15 DEF RewriteInv

\* The first of a sequence, and the rest.
LEMMA HeadAndTail ==
  ASSUME NEW q, IsSequence(q), q # <<>>
  PROVE  /\ 1 \in DOMAIN q /\ Head(q) = q[1]
         /\ IsSequence(Tail(q))
         /\ \A k \in DOMAIN Tail(q) : k \in Nat /\ k + 1 \in DOMAIN q /\ 1 < k + 1 /\ Tail(q)[k] = q[k + 1]
<1> DEFINE S == {q[k] : k \in DOMAIN q}
<1>1. Len(q) \in Nat /\ DOMAIN q = 1 .. Len(q)
  BY DEF IsSequence
<1>2. \A k \in 1 .. Len(q) : q[k] \in S
  BY <1>1
<1> HIDE DEF S
<1>3. q \in Seq(S)
  BY <1>2, SequenceOfElements
<1>4. 1 \in DOMAIN q /\ Head(q) = q[1]
  BY <1>3
<1> DEFINE t == Tail(q)
<1>5. t \in Seq(S) /\ Len(t) = Len(q) - 1 /\ \A k \in 1 .. Len(q) - 1 : t[k] = q[k + 1]
  BY <1>3
<1> HIDE DEF t
<1>6. IsSequence(t) /\ DOMAIN t = 1 .. Len(q) - 1
  BY <1>1, <1>5 DEF IsSequence
<1>7. \A k \in 1 .. Len(q) - 1 : k \in Nat /\ k + 1 \in 1 .. Len(q) /\ 1 < k + 1
  BY <1>1
<1> QED BY <1>1, <1>4, <1>5, <1>6, <1>7 DEF t

\* What a replacement leaves spreads the same text.
LEMMA ApplySpreads ==
  ASSUME NEW Lines, Language(Lines), NEW P, TextOfProgram(Lines, P), NEW at, Spread(P, file, at),
         LabelsKept, IsSequence(replacements),
         \A i, j \in DOMAIN replacements : i < j => replacements[j].line < replacements[i].line,
         \A k \in DOMAIN replacements :
           Asked(P, replacements[k]) /\ Untouched(P, file, at, replacements[k].line),
         ApplyReplacement
  PROVE  \E at2 : /\ Spread(P, file', at2)
                  /\ \A k \in DOMAIN replacements' : Untouched(P, file', at2, replacements'[k].line)
<1> DEFINE r == Head(replacements)
<1>1. /\ replacements # <<>> /\ file' = ReplaceAssemblyLine(file, r.line, r.rewrite)
      /\ replacements' = Tail(replacements)
  BY DEF ApplyReplacement
<1>2. /\ 1 \in DOMAIN replacements /\ r = replacements[1]
      /\ \A k \in DOMAIN replacements' :
           k \in Nat /\ k + 1 \in DOMAIN replacements /\ 1 < k + 1 /\ replacements'[k] = replacements[k + 1]
  BY <1>1, HeadAndTail
<1>3. Asked(P, r) /\ Untouched(P, file, at, r.line)
  BY <1>2
<1> HIDE DEF r
<1>7. PICK number \in Nat :
        /\ GivenBefore(number, P[r.line].label)
        /\ r.rewrite \in Expansions(P[r.line], Registers \ NeededAfter(Decoded(P), Ahead(P, r.line)), number)
  BY <1>3 DEF Asked
<1>4. PICK at2 : /\ Spread(P, file', at2)
                 /\ \A m \in 1 .. r.line - 1 : Untouched(P, file', at2, m)
  BY <1>1, <1>3, <1>7, LineReplaced DEF Asked, TextOfProgram, LabelsKept
<1>5. DOMAIN P \subseteq Nat \ {0}
  BY DEF TextOfProgram, TextFile, IsSequence
<1>6. \A k \in DOMAIN replacements' : replacements'[k].line \in 1 .. r.line - 1
  <2> SUFFICES ASSUME NEW k \in DOMAIN replacements' PROVE replacements'[k].line \in 1 .. r.line - 1
    OBVIOUS
  <2>1. /\ 1 \in DOMAIN replacements /\ k + 1 \in DOMAIN replacements /\ 1 < k + 1
        /\ replacements'[k] = replacements[k + 1] /\ r = replacements[1]
    BY <1>2
  <2>2. replacements'[k].line < r.line
    BY <2>1
  <2>3. replacements'[k].line \in DOMAIN P /\ r.line \in DOMAIN P
    BY <1>3, <2>1 DEF Asked
  <2>4. replacements'[k].line \in Nat \ {0} /\ r.line \in Nat
    BY <1>5, <2>3
  <2> QED BY <2>2, <2>4
<1> QED BY <1>4, <1>6

\* A line is replaced, and those still to come are before it.
LEMMA ApplyKeeps ==
  ASSUME NEW Lines, Language(Lines), RewriteInv(Lines), LabelsKept, LabelsKept', ApplyReplacement
  PROVE  RewriteInv(Lines)'
<1>1. /\ stage = "apply" /\ replacements # <<>> /\ replacements' = Tail(replacements)
      /\ UNCHANGED <<source, stage, block, assemblyLines, nextLabel, analysisVars>>
  BY DEF ApplyReplacement
<1>2. /\ UNCHANGED <<program, split, phase, graph, liveIn, liveOut, done>>
      /\ phase = "liveliness" => InLoop'
  BY <1>1, AnalysisStays DEF RewriteInv
<1>3. InAnalysis'
  BY <1>1, <1>2 DEF RewriteInv, InAnalysis
<1>4. AtDecoded(Lines)' /\ InScratch(Lines)' /\ ReturnedIsSupported' /\ InBlocks(Lines)'
  BY <1>1 DEF AtDecoded, InScratch, InBlocks, ReturnedIsSupported
<1>5. PICK P, at :
        /\ TextOfProgram(Lines, P) /\ Spread(P, file, at)
        /\ IsSequence(replacements)
        /\ \A i, j \in DOMAIN replacements : i < j => replacements[j].line < replacements[i].line
        /\ \A k \in DOMAIN replacements :
             Asked(P, replacements[k]) /\ Untouched(P, file, at, replacements[k].line)
  BY <1>1 DEF RewriteInv, InApply
<1>6. PICK at2 : /\ Spread(P, file', at2)
                 /\ \A k \in DOMAIN replacements' : Untouched(P, file', at2, replacements'[k].line)
  BY <1>5, ApplySpreads
<1>7. /\ IsSequence(replacements')
      /\ \A k \in DOMAIN replacements' :
           k \in Nat /\ k + 1 \in DOMAIN replacements /\ replacements'[k] = replacements[k + 1]
  BY <1>1, <1>5, HeadAndTail
<1>8. TextFile(Lines, file')
  BY <1>5, <1>6, SpreadRuns DEF TextOfProgram, LabelsKept
<1>9. Domains'
  <2>1. Typed(file')
    BY <1>8, TextIsTyped
  <2> QED BY <1>1, <1>2, <2>1 DEF RewriteInv, Domains, Typed, Loop!WellFormed
<1>10. \A i, j \in DOMAIN replacements' : i < j => replacements'[j].line < replacements'[i].line
  <2>1. \A i, j \in Nat : i < j => i + 1 < j + 1
    OBVIOUS
  <2> QED BY <1>5, <1>7, <2>1
<1>11. \A k \in DOMAIN replacements' : Asked(P, replacements'[k])
  BY <1>5, <1>7
<1>12. InApply(Lines)'
  <2>1. \E Q, o :
          /\ (TextFile(Lines, Q) /\ Numbered(Q) /\ program' = Decoded(Q)) /\ Spread(Q, file', o)
          /\ IsSequence(replacements')
          /\ \A i, j \in DOMAIN replacements' : i < j => replacements'[j].line < replacements'[i].line
          /\ \A k \in DOMAIN replacements' :
               Asked(Q, replacements'[k]) /\ Untouched(Q, file', o, replacements'[k].line)
    <3> WITNESS P, at2
    <3> QED BY <1>2, <1>5, <1>6, <1>7, <1>10, <1>11 DEF TextOfProgram
  <2> QED BY <2>1 DEF InApply, TextOfProgram
<1> QED BY <1>3, <1>4, <1>9, <1>12 DEF RewriteInv

\* At the end of a pass the file is numbered and decoded again.
LEMMA DecodeKeeps ==
  ASSUME NEW Lines, Language(Lines), RewriteInv(Lines), LabelsKept, DecodeAgain
  PROVE  RewriteInv(Lines)'
<1>1. /\ stage = "apply" /\ replacements = <<>> /\ stage' = "decoded" /\ phase' = "entry"
      /\ file' = Preprocessed(file) /\ program' = Decoded(file')
      /\ UNCHANGED <<source, replacements, block, assemblyLines, nextLabel, split, graph, liveIn, liveOut>>
  BY DEF DecodeAgain, loopVars
<1>2. TextFile(Lines, file)
  BY <1>1, SpreadRuns DEF RewriteInv, InApply, TextOfProgram, LabelsKept
<1>3. TextFile(Lines, file') /\ Numbered(file')
  BY <1>1, <1>2, Renumbered
<1>4. Domains'
  <2>1. Typed(file')
    BY <1>3, TextIsTyped
  <2> QED BY <1>1, <2>1 DEF RewriteInv, Domains, Typed, Loop!WellFormed
<1>5. AtDecoded(Lines)'
  BY <1>1, <1>3 DEF AtDecoded, TextOfProgram, Numbered
<1> QED BY <1>1, <1>4, <1>5 DEF RewriteInv, InAnalysis, InScratch, InApply, InBlocks, ReturnedIsSupported

\* The block loop starts from the file the blocks are made of.
LEMMA LeaveKeeps ==
  ASSUME NEW Lines, Language(Lines), RewriteInv(Lines), LeaveScratchLoop
  PROVE  RewriteInv(Lines)'
<1>1. /\ stage = "scratch" /\ replacements = <<>> /\ FromProgram(FALSE)
      /\ block' = 1 /\ assemblyLines' = file /\ stage' = "blocks"
      /\ UNCHANGED <<source, file, replacements, nextLabel>>
  BY DEF LeaveScratchLoop, LookedAtAll, PassFoundNothing
<1>2. TextOfProgram(Lines, file) /\ IsSequence(file)
  BY <1>1 DEF RewriteInv, InScratch, TextOfProgram, TextFile
<1>3. /\ InLoop' /\ phase' = "liveliness" /\ program' = program
      /\ Loop!WellFormed(graph')
      /\ liveIn' \in [DOMAIN graph' -> SUBSET Registers]
      /\ liveOut' \in [DOMAIN graph' -> SUBSET Registers]
      /\ 1 \in 1 .. Len(graph') + 1
  BY <1>1, <1>2, AnalysisBegins
<1>4. Domains'
  BY <1>1, <1>3 DEF RewriteInv, Domains, Typed
<1>5. Rewritten(file, file, [n \in 1 .. Len(file) + 1 |-> n], graph', {})
  BY <1>2, NothingRewritten
<1>6. \A b \in DOMAIN graph' : ~(b < 1)
  BY <1>3 DEF Loop!WellFormed
<1>7. InBlocks(Lines)'
  BY <1>1, <1>2, <1>3, <1>5, <1>6 DEF InBlocks, TextOfProgram
<1>8. InAnalysis' /\ AtDecoded(Lines)' /\ InScratch(Lines)' /\ InApply(Lines)' /\ ReturnedIsSupported'
  BY <1>1, <1>3 DEF InAnalysis, AtDecoded, InScratch, InApply, ReturnedIsSupported
<1> QED BY <1>4, <1>7, <1>8 DEF RewriteInv

\* A block more is rewritten.
LEMMA RewriteReplaces ==
  ASSUME NEW Lines, Language(Lines), TextOfProgram(Lines, assemblyLines),
         InLoop, NEW at, NEW W, Rewritten(assemblyLines, file, at, graph, W), RewriteBlock
  PROVE  \E at2 : Rewritten(assemblyLines, file', at2, graph, W \cup {block})
<1> DEFINE P == assemblyLines
<1>1. /\ done /\ block \in DOMAIN graph
      /\ Rewritable(block) /\ file' = ReplaceAssembly(file, block, Best(block))
  BY DEF RewriteBlock, LookingAtBlock
<1>2. BlocksOf(Lines, P)
  BY BlocksAreOf
<1>3. liveOut[block] = NeededAfter(program, graph[block].finish - 1)
  BY <1>1, ReturnedIsExact
<1>4. IsBest(P, graph, block, Best(block))
  BY <1>1, <1>2, <1>3, BestIsAsked
<1>5. \A i \in graph[block].start .. graph[block].finish - 1 : program[i].branch = "none"
  BY <1>1, <1>2, BlockConditions
<1>6. file' = FlattenSeq(PartsFor(P, file, graph, block, Best(block)))
  BY <1>1, <1>2, AssemblyReplaced
<1>7. /\ program = Decoded(P) /\ TextFile(Lines, P) /\ Numbered(P)
      /\ IsCut(Decoded(P), ChosenBoundaries(program, split))
      /\ Tiles(Decoded(P), ChosenBoundaries(program, split), graph)
  BY <1>2 DEF BlocksOf, TextOfProgram
<1>8. \A i \in graph[block].start .. graph[block].finish - 1 : Decoded(P)[i].branch = "none"
  BY <1>5, <1>7
<1> HIDE DEF P
<1>9. \E at2 : Rewritten(P, FlattenSeq(PartsFor(P, file, graph, block, Best(block))), at2, graph, W \cup {block})
  BY <1>1, <1>4, <1>7, <1>8, BlockReplaced DEF P
<1> QED BY <1>6, <1>9 DEF P

\* A block is rewritten, and the other lines are kept.
LEMMA RewriteKeeps ==
  ASSUME NEW Lines, Language(Lines), RewriteInv(Lines), RewriteBlock
  PROVE  RewriteInv(Lines)'
<1>1. /\ stage = "blocks" /\ done /\ block \in DOMAIN graph /\ block' = block + 1
      /\ Rewritable(block) /\ file' = ReplaceAssembly(file, block, Best(block))
      /\ UNCHANGED <<source, stage, replacements, assemblyLines, nextLabel, analysisVars>>
  BY DEF RewriteBlock, LookingAtBlock
<1>2. /\ UNCHANGED <<program, split, phase, graph, liveIn, liveOut, done>>
      /\ phase = "liveliness" => InLoop'
  BY <1>1, AnalysisStays DEF RewriteInv
<1>3. DOMAIN graph = 1 .. Len(graph) /\ Len(graph) \in Nat
  BY DEF RewriteInv, Domains, Loop!WellFormed
<1>4. block \in Nat /\ block' \in 1 .. Len(graph) + 1
  BY <1>1, <1>3
<1>5. InAnalysis'
  BY <1>1, <1>2 DEF RewriteInv, InAnalysis
<1>6. AtDecoded(Lines)' /\ InScratch(Lines)' /\ InApply(Lines)' /\ ReturnedIsSupported'
  BY <1>1 DEF AtDecoded, InScratch, InApply, ReturnedIsSupported
<1>7. \A b : NeedsRewrite(b)' = NeedsRewrite(b)
  BY <1>2 DEF NeedsRewrite, Instructions
<1> DEFINE P == assemblyLines
<1>8. PICK W, at :
        /\ TextOfProgram(Lines, P) /\ Rewritten(P, file, at, graph, W)
        /\ \A b \in DOMAIN graph : b < block => b \in W \/ ~NeedsRewrite(b)
  BY <1>1 DEF RewriteInv, InBlocks
<1>9. InLoop /\ BlocksOf(Lines, P)
  <2>1. InLoop
    BY <1>1 DEF RewriteInv, InAnalysis
  <2> QED BY <1>8, <2>1, BlocksAreOf
<1>10. PICK at2 : Rewritten(P, file', at2, graph, W \cup {block})
  BY <1>1, <1>8, <1>9, RewriteReplaces
<1>11. Domains'
  <2>1. Typed(file')
    BY <1>8, <1>9, <1>10, RewrittenIsTyped DEF BlocksOf, TextOfProgram
  <2> QED BY <1>1, <1>2, <1>4, <2>1 DEF RewriteInv, Domains, Typed, Loop!WellFormed
<1>12. \A b \in DOMAIN graph : b < block' => b \in W \cup {block} \/ ~NeedsRewrite(b)
  <2>1. \A b \in DOMAIN graph : b < block' => b < block \/ b = block
    BY <1>1, <1>3, <1>4
  <2> QED BY <1>8, <2>1
<1>13. InBlocks(Lines)'
  <2>1. TextFile(Lines, P) /\ Numbered(P) /\ program' = Decoded(P) /\ assemblyLines' = P
    BY <1>1, <1>2, <1>8 DEF TextOfProgram
  <2>2. \E V, o : /\ Rewritten(P, file', o, graph', V)
                  /\ \A b \in DOMAIN graph' : b < block' => b \in V \/ ~(NeedsRewrite(b)')
    <3> WITNESS W \cup {block}, at2
    <3> QED BY <1>2, <1>7, <1>10, <1>12
  <2> HIDE DEF P
  <2> QED BY <2>1, <2>2 DEF InBlocks, TextOfProgram
<1> QED BY <1>5, <1>6, <1>11, <1>13 DEF RewriteInv

\* A panic of the block loop leaves the rest.
LEMMA PanicKeeps ==
  ASSUME NEW Lines, Language(Lines), RewriteInv(Lines), Panic
  PROVE  RewriteInv(Lines)'
<1>1. /\ stage = "blocks" /\ stage' = "panicked"
      /\ UNCHANGED <<source, file, replacements, block, assemblyLines, nextLabel, analysisVars>>
  BY DEF Panic, LookingAtBlock
<1>2. /\ UNCHANGED <<program, split, phase, graph, liveIn, liveOut, done>>
      /\ phase = "liveliness" => InLoop'
  BY <1>1, AnalysisStays DEF RewriteInv
<1>3. Domains'
  BY <1>1, <1>2 DEF RewriteInv, Domains, Typed, Loop!WellFormed
<1>4. InAnalysis'
  BY <1>1, <1>2 DEF RewriteInv, InAnalysis
<1> QED BY <1>1, <1>3, <1>4
        DEF RewriteInv, AtDecoded, InScratch, InApply, InBlocks, ReturnedIsSupported

\* When the loop is through, a line is supported, or a label, or the best one of a block.
LEMMA ReturnKeeps ==
  ASSUME NEW Lines, Language(Lines), RewriteInv(Lines), Return
  PROVE  RewriteInv(Lines)'
<1>1. /\ stage = "blocks" /\ stage' = "returned" /\ block \notin DOMAIN graph
      /\ UNCHANGED <<source, file, replacements, block, assemblyLines, nextLabel, analysisVars>>
  BY DEF Return, LookedAtAll
<1>2. /\ UNCHANGED <<program, split, phase, graph, liveIn, liveOut, done>>
      /\ phase = "liveliness" => InLoop'
  BY <1>1, AnalysisStays DEF RewriteInv
<1>3. Domains'
  BY <1>1, <1>2 DEF RewriteInv, Domains, Typed, Loop!WellFormed
<1>4. InAnalysis'
  BY <1>1, <1>2 DEF RewriteInv, InAnalysis
<1> DEFINE P == assemblyLines
<1>5. PICK W, at :
        /\ TextOfProgram(Lines, P) /\ Rewritten(P, file, at, graph, W)
        /\ \A b \in DOMAIN graph : b < block => b \in W \/ ~NeedsRewrite(b)
  BY <1>1 DEF RewriteInv, InBlocks
<1>6. InLoop /\ BlocksOf(Lines, P)
  <2>1. InLoop
    BY <1>1 DEF RewriteInv, InAnalysis
  <2> QED BY <1>5, <2>1, BlocksAreOf
<1>7. \A b \in DOMAIN graph : b < block
  <2>1. DOMAIN graph = 1 .. Len(graph) /\ Len(graph) \in Nat /\ block \in 1 .. Len(graph) + 1
    BY DEF RewriteInv, Domains, Loop!WellFormed
  <2> QED BY <1>1, <2>1
<1>8. ASSUME NEW m \in DOMAIN file PROVE file[m].op \in Supported \cup {"label", "best"}
  <2>1. CASE \E b \in W : IsBest(P, graph, b, file[m])
    BY <2>1 DEF IsBest
  <2>2. CASE \E n \in DOMAIN P : /\ file[m] = P[n]
                                 /\ P[n].op = "label" \/ \A b \in W : ~InBlock(graph, b, Ahead(P, n))
    <3>1. PICK n \in DOMAIN P : /\ file[m] = P[n]
                                /\ P[n].op = "label" \/ \A b \in W : ~InBlock(graph, b, Ahead(P, n))
      BY <2>2
    <3>2. CASE P[n].op # "label"
      <4>1. PICK b \in DOMAIN graph : /\ InBlock(graph, b, Ahead(P, n))
                                      /\ Ahead(P, n) \in graph[b].start .. graph[b].finish - 1
                                      /\ InstructionLines(P)[Ahead(P, n)] = n
        BY <1>6, <3>2, InstructionInBlock
      <4>2. ~NeedsRewrite(b)
        BY <1>5, <1>7, <3>1, <3>2, <4>1
      <4>3. P[n].op \in Supported
        BY <1>6, <4>1, <4>2, BlockConditions
      <4> QED BY <3>1, <4>3
    <3> QED BY <3>1, <3>2
  <2>3. \/ \E n \in DOMAIN P : /\ file[m] = P[n]
                               /\ P[n].op = "label" \/ \A b \in W : ~InBlock(graph, b, Ahead(P, n))
        \/ \E b \in W : IsBest(P, graph, b, file[m])
    BY <1>5, <1>6, LinesOfRewritten DEF BlocksOf, TextOfProgram
  <2> QED BY <2>1, <2>2, <2>3
<1>9. ReturnedIsSupported'
  BY <1>1, <1>8 DEF ReturnedIsSupported
<1> QED BY <1>1, <1>3, <1>4, <1>9 DEF RewriteInv, AtDecoded, InScratch, InApply, InBlocks

\* And so does a step that changes nothing.
LEMMA StutterKeeps ==
  ASSUME NEW Lines, RewriteInv(Lines), UNCHANGED vars
  PROVE  RewriteInv(Lines)'
<1>1. UNCHANGED <<source, file, stage, replacements, block, assemblyLines, nextLabel, analysisVars>>
  BY DEF vars
<1>2. /\ UNCHANGED <<program, split, phase, graph, liveIn, liveOut, done>>
      /\ phase = "liveliness" => InLoop'
  BY <1>1, AnalysisStays DEF RewriteInv
<1>3. \A b : NeedsRewrite(b)' = NeedsRewrite(b)
  BY <1>2 DEF NeedsRewrite, Instructions
<1>4. Domains'
  BY <1>1, <1>2 DEF RewriteInv, Domains, Typed, Loop!WellFormed
<1>5. InAnalysis' /\ AtDecoded(Lines)' /\ InScratch(Lines)' /\ ReturnedIsSupported'
  BY <1>1, <1>2 DEF RewriteInv, InAnalysis, AtDecoded, InScratch, ReturnedIsSupported, TextOfProgram, Ascending
<1>6. InApply(Lines)'
  BY <1>1, <1>2 DEF RewriteInv, InApply, TextOfProgram
<1>7. InBlocks(Lines)'
  BY <1>1, <1>2, <1>3 DEF RewriteInv, InBlocks, TextOfProgram
<1> QED BY <1>4, <1>5, <1>6, <1>7 DEF RewriteInv

\* Sorting leaves the replacements what they are.
LEMMA SortLabels ==
  ASSUME NEW Lines, RewriteInv(Lines), Labelled, SortReplacements
  PROVE  LabelsApart(file, replacements', nextLabel)
<1>1. stage = "scratch" /\ replacements' = LastLineFirst(ToSet(replacements))
  BY DEF SortReplacements, LookedAtAll
<1>2. LabelsApart(file, replacements, nextLabel)
  BY <1>1 DEF Labelled
<1> DEFINE m == Len(replacements)
<1>3. /\ m \in Nat /\ DOMAIN replacements = 1 .. m /\ Ascending(replacements)
      /\ \A k \in 1 .. m : replacements[k].line \in Int
  <2>1. /\ TextOfProgram(Lines, file) /\ IsSequence(replacements) /\ Ascending(replacements)
        /\ \A k \in DOMAIN replacements : replacements[k].line \in DOMAIN file
    BY <1>1 DEF RewriteInv, InScratch, Asked
  <2>2. DOMAIN file \subseteq Int
    BY <2>1 DEF TextOfProgram, TextFile, IsSequence
  <2> QED BY <2>1, <2>2 DEF IsSequence
<1>4. replacements' = [k \in 1 .. m |-> replacements[m + 1 - k]]
  BY <1>1, <1>3, PassIsReversed
<1> HIDE DEF m
<1>5. SomeOf(replacements, replacements')
  <2> DEFINE from == [k \in 1 .. m |-> m + 1 - k]
  <2>1. \A k \in 1 .. m : m + 1 - k \in 1 .. m /\ \A i \in 1 .. m : i # k => m + 1 - i # m + 1 - k
    BY <1>3
  <2>2. from \in [1 .. m -> 1 .. m] /\ \A i, j \in 1 .. m : i # j => from[i] # from[j]
    BY <2>1
  <2>3. \A k \in 1 .. m : replacements'[k] = replacements[from[k]]
    BY <1>4
  <2>4. DOMAIN replacements' = 1 .. m
    BY <1>4
  <2> HIDE DEF from
  <2> QED BY <1>3, <2>2, <2>3, <2>4 DEF SomeOf
<1> QED BY <1>2, <1>5, LabelsOfSome

\* A replacement that is applied leaves labels the others go with.
LEMMA ApplyLabels ==
  ASSUME NEW Lines, Language(Lines), RewriteInv(Lines), Labelled, ApplyReplacement
  PROVE  LabelsApart(file', replacements', nextLabel)
<1> DEFINE r == replacements[1]
<1>1. /\ stage = "apply" /\ replacements # <<>> /\ replacements' = Tail(replacements)
      /\ file' = ReplaceAssemblyLine(file, Head(replacements).line, Head(replacements).rewrite)
  BY DEF ApplyReplacement
<1>2. LabelsApart(file, replacements, nextLabel)
  BY <1>1 DEF Labelled
<1>3. PICK P, at :
        /\ TextOfProgram(Lines, P) /\ Spread(P, file, at)
        /\ IsSequence(replacements)
        /\ \A k \in DOMAIN replacements :
             Asked(P, replacements[k]) /\ Untouched(P, file, at, replacements[k].line)
  BY <1>1 DEF RewriteInv, InApply
<1>4. /\ 1 \in DOMAIN replacements /\ Head(replacements) = r
      /\ \A k \in DOMAIN replacements' :
           k \in Nat /\ k + 1 \in DOMAIN replacements /\ 1 < k + 1 /\ replacements'[k] = replacements[k + 1]
  BY <1>1, <1>3, HeadAndTail
<1>5. file' = ReplaceAssemblyLine(file, r.line, r.rewrite) /\ Asked(P, r) /\ Untouched(P, file, at, r.line)
  BY <1>1, <1>3, <1>4
<1>6. TextFile(Lines, P) /\ TextFile(Lines, file) /\ LabelsResolve(file)
  BY <1>2, <1>3, SpreadRuns DEF TextOfProgram, LabelsApart
<1> DEFINE n == r.line
           x == r.rewrite
<1>7. n \in DOMAIN P /\ P[n].op # "label" /\ x \in Seq(Lines)
  <2>1. n \in DOMAIN P /\ P[n].op # "label" /\ P[n] \in Lines
    BY <1>5, <1>6 DEF Asked, TextFile
  <2>2. PICK number \in Nat :
          /\ GivenBefore(number, P[n].label)
          /\ x \in Expansions(P[n], Registers \ NeededAfter(Decoded(P), Ahead(P, n)), number)
    BY <1>5 DEF Asked
  <2>3. Registers \ NeededAfter(Decoded(P), Ahead(P, n)) \in SUBSET Registers
    OBVIOUS
  <2> HIDE DEF n, x
  <2> QED BY <2>1, <2>2, <2>3 DEF Language
<1>8. FitsLabels(file, x, nextLabel) /\ LabelsGiven(file, nextLabel)
  BY <1>2, <1>4 DEF LabelsApart
<1> HIDE DEF r
<1>9. file[n] = P[n] /\ n \in 1 .. Len(file) /\ file \in Seq(Lines)
  <2>1. n \in Nat \ {0} /\ n <= Len(P) /\ Len(P) \in Nat /\ at[n] = n /\ at[n + 1] = n + 1 /\ file[n] = P[n]
    <3>1. DOMAIN P = 1 .. Len(P) /\ Len(P) \in Nat
      BY <1>6 DEF TextFile, IsSequence
    <3>2. n \in 1 .. n + 1 /\ n + 1 \in 1 .. n + 1 /\ n \in 1 .. n
      BY <1>7, <3>1
    <3> QED BY <1>5, <1>7, <3>1, <3>2 DEF Untouched
  <2>2. Len(file) \in Nat /\ DOMAIN file = 1 .. Len(file) /\ \A k \in 1 .. Len(file) : file[k] \in Lines
    BY <1>6 DEF TextFile, IsSequence
  <2>3. at[n + 1] \in 1 .. Len(file) + 1
    <3>1. n + 1 \in 1 .. Len(P) + 1 /\ Laid(P, file, at) /\ IsSequence(P)
      BY <1>3, <1>6, <2>1 DEF Spread, TextFile
    <3> QED BY <3>1, LaidInside
  <2>4. n \in 1 .. Len(file)
    BY <2>1, <2>2, <2>3
  <2>5. file \in Seq(Lines)
    BY <1>6, <2>2, SequenceOfElements DEF TextFile
  <2> QED BY <2>1, <2>4, <2>5
<1> HIDE DEF n, x
<1>10. file' = ReplaceAssemblyLine(file, n, x)
  BY <1>5 DEF n, x
<1>11. InItsPlace(file, n, x, file')
  <2>1. file' \in Seq(Lines) /\ Inserted(file, n, x, file')
    BY <1>7, <1>9, <1>10, LineReplacedParts
  <2> QED BY <1>7, <1>9, <2>1, InsertedPlaces
<1>12. /\ LabelsResolve(file') /\ LabelsGiven(file', nextLabel)
       /\ \A y : FitsLabels(file, y, nextLabel) /\ DifferentLabels(x, y) => FitsLabels(file', y, nextLabel)
  <2>1. file[n].op # "label"
    BY <1>7, <1>9
  <2> QED BY <1>6, <1>8, <1>11, <2>1, LabelsOfApplied
<1>13. ASSUME NEW k \in DOMAIN replacements' PROVE FitsLabels(file', replacements'[k].rewrite, nextLabel)
  <2>1. k + 1 \in DOMAIN replacements /\ 1 # k + 1 /\ replacements'[k] = replacements[k + 1]
    BY <1>4
  <2>2. DifferentLabels(x, replacements[k + 1].rewrite) /\ FitsLabels(file, replacements[k + 1].rewrite, nextLabel)
    BY <1>2, <1>4, <2>1 DEF LabelsApart, x, r
  <2> QED BY <1>12, <2>1, <2>2
<1>14. ASSUME NEW i \in DOMAIN replacements', NEW j \in DOMAIN replacements', i # j
       PROVE  DifferentLabels(replacements'[i].rewrite, replacements'[j].rewrite)
  <2>1. i + 1 \in DOMAIN replacements /\ j + 1 \in DOMAIN replacements /\ i + 1 # j + 1
    BY <1>4, <1>14
  <2>2. replacements'[i] = replacements[i + 1] /\ replacements'[j] = replacements[j + 1]
    BY <1>4
  <2> QED BY <1>2, <2>1, <2>2 DEF LabelsApart
<1> QED BY <1>12, <1>13, <1>14 DEF LabelsApart

\* Every step leaves a file whose labels are each defined once, and new labels for the rest.
LEMMA LabelsStep ==
  ASSUME NEW Lines, Language(Lines), RewriteInv(Lines), Labelled, [Next]_vars
  PROVE  Labelled'
<1>1. CASE AskForReplacement
  <2>1. file' = file /\ LabelsApart(file, replacements', nextLabel')
    BY <1>1, AskLabels DEF AskForReplacement
  <2> QED BY <2>1 DEF Labelled, LabelsKept
<1>2. CASE SortReplacements
  <2>1. file' = file /\ nextLabel' = nextLabel /\ LabelsApart(file, replacements', nextLabel)
    BY <1>2, SortLabels DEF SortReplacements
  <2> QED BY <2>1 DEF Labelled, LabelsKept
<1>3. CASE ApplyReplacement
  <2>1. nextLabel' = nextLabel /\ LabelsApart(file', replacements', nextLabel)
    BY <1>3, ApplyLabels DEF ApplyReplacement
  <2> QED BY <2>1 DEF Labelled, LabelsKept, LabelsApart
<1>4. CASE DecodeAgain
  <2>1. /\ stage = "apply" /\ file' = Preprocessed(file) /\ replacements' = <<>> /\ nextLabel' = nextLabel
        /\ LabelsResolve(file) /\ LabelsGiven(file, nextLabel)
    BY <1>4 DEF DecodeAgain, Labelled, LabelsKept, LabelsApart
  <2>2. TextFile(Lines, file)
    BY <2>1, SpreadRuns DEF RewriteInv, InApply, TextOfProgram
  <2>3. LabelsResolve(file') /\ SameText(file, file')
    BY <2>1, <2>2, Renumbered DEF TextFile
  <2>4. LabelsGiven(file', nextLabel)
    BY <2>1, <2>3, LabelsOfSame
  <2>5. DOMAIN replacements' = {}
    BY <2>1
  <2> QED BY <2>1, <2>3, <2>4, <2>5 DEF Labelled, LabelsKept, LabelsApart
<1>5. CASE RewriteBlock
  <2>1. stage = "blocks" /\ stage' = "blocks" /\ InLoop
    BY <1>5 DEF RewriteBlock, LookingAtBlock, RewriteInv, InAnalysis
  <2>2. PICK W, at : TextOfProgram(Lines, assemblyLines) /\ Rewritten(assemblyLines, file, at, graph, W)
    BY <2>1 DEF RewriteInv, InBlocks
  <2>3. PICK at2 : Rewritten(assemblyLines, file', at2, graph, W \cup {block})
    BY <1>5, <2>1, <2>2, RewriteReplaces
  <2>4. LabelsResolve(file')
    BY <2>2, <2>3, RewrittenLabels DEF TextOfProgram
  <2> QED BY <2>1, <2>4 DEF Labelled, LabelsKept
<1>6. CASE ~(\/ AskForReplacement \/ SortReplacements \/ ApplyReplacement \/ DecodeAgain \/ RewriteBlock)
  <2>1. /\ UNCHANGED <<file, replacements, nextLabel>>
        /\ stage' \in {"decoded", "scratch", "apply"} => stage \in {"decoded", "scratch", "apply"}
    BY <1>6 DEF Next, vars, StartPass, PanicAtStart, RunAnalysis, SkipBlock, LeaveScratchLoop, Panic, Return
  <2> QED BY <2>1 DEF Labelled, LabelsKept
<1> QED BY <1>1, <1>2, <1>3, <1>4, <1>5, <1>6

\* And so it begins: the labels of a source have no number.
LEMMA LabelsBegin ==
  ASSUME NEW Lines, Language(Lines), Init
  PROVE  Labelled
<1>1. /\ source \in Sources /\ file = Preprocessed(source) /\ replacements = <<>> /\ nextLabel = 0
      /\ \A n \in DOMAIN source : OfSource(source[n].label)
  BY SourcesAssumption DEF Init
<1>2. LabelsResolve(file) /\ SameText(source, file)
  BY <1>1, SourcesAreText, Renumbered DEF TextFile
<1>3. LabelsGiven(source, 0)
  BY <1>1 DEF LabelsGiven, GivenBefore, LabelsIn
<1>4. LabelsGiven(file, nextLabel)
  BY <1>1, <1>2, <1>3, LabelsOfSame
<1>5. DOMAIN replacements = {}
  BY <1>1
<1> QED BY <1>2, <1>4, <1>5 DEF Labelled, LabelsKept, LabelsApart

\* Every step keeps the invariant.
LEMMA RewriteStep ==
  ASSUME NEW Lines, Language(Lines), RewriteInv(Lines), Labelled, [Next]_vars
  PROVE  RewriteInv(Lines)' /\ Labelled'
<1>1. Labelled' /\ LabelsKept /\ LabelsKept'
  BY LabelsStep DEF Labelled
<1> QED BY <1>1, StartKeeps, PanicAtStartKeeps, RunAnalysisKeeps, SkipKeeps, AskKeeps, SortKeeps, ApplyKeeps,
           DecodeKeeps, LeaveKeeps, RewriteKeeps, PanicKeeps, ReturnKeeps, StutterKeeps DEF Next

\* The invariant holds throughout.
LEMMA RewriteInvHolds ==
  ASSUME NEW CONSTANT Lines, Language(Lines)
  PROVE  Spec => [](RewriteInv(Lines) /\ Labelled)
<1>1. Init => RewriteInv(Lines) /\ Labelled
  BY RewriteBegins, LabelsBegin
<1>2. RewriteInv(Lines) /\ Labelled /\ [Next]_vars => RewriteInv(Lines)' /\ Labelled'
  BY RewriteStep
<1> QED BY <1>1, <1>2, PTL DEF Spec

\* The replacements still to be applied are at the lines they were asked for.
LEMMA LinesAreCurrent ==
  ASSUME NEW Lines, RewriteInv(Lines)
  PROVE  PassLinesCurrent
<1> SUFFICES ASSUME NEW k \in DOMAIN replacements
             PROVE  file[replacements[k].line].tag = replacements[k].line
  BY DEF PassLinesCurrent
<1>1. CASE stage = "scratch"
  BY <1>1 DEF RewriteInv, InScratch, Asked, TextOfProgram, Numbered
<1>2. CASE stage = "apply"
  <2>1. PICK P, at : /\ TextOfProgram(Lines, P)
                     /\ Asked(P, replacements[k]) /\ Untouched(P, file, at, replacements[k].line)
    BY <1>2 DEF RewriteInv, InApply
  <2> DEFINE n == replacements[k].line
  <2>2. n \in DOMAIN P /\ P[n].tag = n
    BY <2>1 DEF Asked, TextOfProgram, Numbered
  <2>3. n \in 1 .. n
    BY <2>1, <2>2 DEF TextOfProgram, TextFile, IsSequence
  <2>4. file[n] = P[n]
    BY <2>1, <2>3 DEF Untouched
  <2> QED BY <2>2, <2>4
<1>3. CASE stage \notin {"scratch", "apply"}
  BY <1>3 DEF RewriteInv, Domains
<1> QED BY <1>1, <1>2, <1>3

\* Whatever the source, and whatever code with new labels the hook answers, every pass applies
\* its replacements to the lines they were asked for, the file assembles between any two of
\* them, and what is returned runs on the candidate.
THEOREM RewriteInvariantHolds ==
  ASSUME NEW CONSTANT Lines, Language(Lines)
  PROVE  Spec => []RewriteInvariant
<1>1. RewriteInv(Lines) /\ Labelled => RewriteInvariant
  <2> SUFFICES ASSUME RewriteInv(Lines), Labelled PROVE RewriteInvariant
    OBVIOUS
  <2>1. stage \in {"decoded", "scratch"} => program = Decoded(file) /\ \A n \in DOMAIN file : file[n].tag = n
    BY DEF RewriteInv, AtDecoded, InScratch, TextOfProgram, Numbered
  <2>2. TypeOK
    BY <2>1 DEF RewriteInv, Domains, Typed, TypeOK
  <2> QED BY <2>2, LinesAreCurrent DEF RewriteInv, RewriteInvariant, Labelled
<1>2. Spec => [](RewriteInv(Lines) /\ Labelled)
  BY RewriteInvHolds
<1> QED BY <1>1, <1>2, PTL

(***************************************************************************)
(* The file keeps its behaviour.                                           *)
(***************************************************************************)

\* The replacements of a pass, done or not, leave what is seen of the text of the program.
LEMMA PassSeen ==
  ASSUME NEW Lines, NEW Values, Language(Lines), Computes(Lines, Values), HookKeepsMeaning(Lines, Values),
         StepCounts = Nat, InLoop, FitsIn(program), NEW P, TextOfProgram(Lines, P),
         NEW F, LabelsResolve(F), NEW at, Spread(P, F, at), NEW regs \in Starts
  PROVE  Sights(F, regs) = Sights(P, regs)
<1>1. TextFile(Lines, P) /\ FitsIn(Decoded(P)) /\ ~AnalysisPanics(Decoded(P))
  BY DEF TextOfProgram, InLoop
<1> QED BY <1>1, SpreadSeen

\* So do the blocks.
LEMMA BlocksSeen ==
  ASSUME NEW Lines, NEW Values, Language(Lines), Computes(Lines, Values), StepCounts = Nat,
         InLoop, FitsIn(program), NEW P, TextOfProgram(Lines, P),
         NEW F, NEW at, NEW W, Rewritten(P, F, at, graph, W), NEW regs \in Starts
  PROVE  Sights(F, regs) = Sights(P, regs)
<1>1. TextFile(Lines, P) /\ FitsIn(Decoded(P)) /\ ~AnalysisPanics(Decoded(P))
  BY DEF TextOfProgram, InLoop
<1>2. /\ IsCut(Decoded(P), ChosenBoundaries(program, split))
      /\ Tiles(Decoded(P), ChosenBoundaries(program, split), graph)
  BY BlocksAreOf DEF BlocksOf
<1> QED BY <1>1, <1>2, RewrittenSeen

\* No step changes what is seen of the file.
LEMMA FileRunsAlike ==
  ASSUME NEW Lines, NEW Values, Language(Lines), Computes(Lines, Values), HookKeepsMeaning(Lines, Values),
         StepCounts = Nat, RewriteInv(Lines), LabelsKept, LabelsKept', FitsIn(program), [Next]_vars,
         NEW regs \in Starts
  PROVE  Sights(file', regs) = Sights(file, regs)
<1>1. CASE ApplyReplacement
  <2>1. InLoop
    BY <1>1 DEF ApplyReplacement, RewriteInv, InAnalysis
  <2>2. PICK P, at :
          /\ TextOfProgram(Lines, P) /\ Spread(P, file, at)
          /\ IsSequence(replacements)
          /\ \A i, j \in DOMAIN replacements : i < j => replacements[j].line < replacements[i].line
          /\ \A k \in DOMAIN replacements :
               Asked(P, replacements[k]) /\ Untouched(P, file, at, replacements[k].line)
    BY <1>1 DEF ApplyReplacement, RewriteInv, InApply
  <2>3. PICK at2 : Spread(P, file', at2)
    BY <1>1, <2>2, ApplySpreads
  <2>4. Sights(file, regs) = Sights(P, regs)
    BY <2>1, <2>2, PassSeen DEF LabelsKept
  <2>5. Sights(file', regs) = Sights(P, regs)
    BY <2>1, <2>2, <2>3, PassSeen DEF LabelsKept
  <2> QED BY <2>4, <2>5
<1>2. CASE DecodeAgain
  <2>1. TextFile(Lines, file)
    BY <1>2, SpreadRuns DEF DecodeAgain, RewriteInv, InApply, TextOfProgram, LabelsKept
  <2>2. /\ file' = Preprocessed(file) /\ TextFile(Lines, Preprocessed(file))
        /\ SameText(file, Preprocessed(file))
    BY <1>2, <2>1, Renumbered DEF DecodeAgain
  <2> QED BY <2>1, <2>2, SameTextSeen
<1>3. CASE RewriteBlock
  <2>1. InLoop
    BY <1>3 DEF RewriteBlock, LookingAtBlock, RewriteInv, InAnalysis
  <2>2. PICK W, at :
          TextOfProgram(Lines, assemblyLines) /\ Rewritten(assemblyLines, file, at, graph, W)
    BY <1>3 DEF RewriteBlock, LookingAtBlock, RewriteInv, InBlocks
  <2>3. PICK at2 : Rewritten(assemblyLines, file', at2, graph, W \cup {block})
    BY <1>3, <2>1, <2>2, RewriteReplaces
  <2>4. Sights(file, regs) = Sights(assemblyLines, regs)
    BY <2>1, <2>2, BlocksSeen
  <2>5. Sights(file', regs) = Sights(assemblyLines, regs)
    BY <2>1, <2>2, <2>3, BlocksSeen
  <2> QED BY <2>4, <2>5
<1>4. ~ApplyReplacement /\ ~DecodeAgain /\ ~RewriteBlock => file' = file
  BY DEF Next, vars, StartPass, PanicAtStart, RunAnalysis, SkipBlock, AskForReplacement,
         SortReplacements, LeaveScratchLoop, Panic, Return
<1> QED BY <1>1, <1>2, <1>3, <1>4

\* The source is never changed.
LEMMA SourceStays ==
  ASSUME [Next]_vars
  PROVE  source' = source
BY DEF Next, vars, StartPass, PanicAtStart, RunAnalysis, SkipBlock, AskForReplacement,
       SortReplacements, ApplyReplacement, DecodeAgain, LeaveScratchLoop, RewriteBlock, Panic, Return

\* Whatever the source and the hook, loops, branches and conditions in what it answers
\* included, as long as an answer does what its instruction does outside the scratch registers,
\* registers hold values and no program grows out of the address space, the file shows what
\* the source does between any two steps: from every start, at every moment of the runs.
THEOREM BehaviourKeptHolds ==
  ASSUME NEW CONSTANT Lines, NEW CONSTANT Values, StepCounts = Nat,
         Language(Lines), Computes(Lines, Values), HookKeepsMeaning(Lines, Values)
  PROVE  Spec /\ []FitsIn(program) => []BehaviourKept
<1>1. Init => BehaviourKept
  <2> SUFFICES ASSUME Init, NEW regs \in Starts PROVE Sights(file, regs) = Sights(source, regs)
    BY DEF BehaviourKept
  <2>1. TextFile(Lines, source) /\ file = Preprocessed(source)
    BY SourcesAreText DEF Init
  <2>2. TextFile(Lines, Preprocessed(source)) /\ SameText(source, Preprocessed(source))
    BY <2>1, Renumbered
  <2> QED BY <2>1, <2>2, SameTextSeen
<1>2. BehaviourKept /\ RewriteInv(Lines) /\ Labelled /\ FitsIn(program) /\ [Next]_vars => BehaviourKept'
  <2> SUFFICES ASSUME BehaviourKept, RewriteInv(Lines), Labelled, FitsIn(program), [Next]_vars,
                      NEW regs \in Starts
               PROVE  Sights(file', regs) = Sights(source', regs)
    BY DEF BehaviourKept
  <2>1. LabelsKept /\ LabelsKept'
    BY LabelsStep DEF Labelled
  <2>2. Sights(file', regs) = Sights(file, regs)
    BY <2>1, FileRunsAlike
  <2>3. source' = source
    BY SourceStays
  <2> QED BY <2>2, <2>3 DEF BehaviourKept
<1>3. Spec => [](RewriteInv(Lines) /\ Labelled)
  BY RewriteInvHolds
<1> QED BY <1>1, <1>2, <1>3, PTL DEF Spec
==============================================================================
