------------------------------- MODULE Recursion -------------------------------
(***************************************************************************)
(* Induction for the proof modules.  The theorems of the library take an   *)
(* operator that the provers cannot instantiate; these speak of sets and   *)
(* functions, so that they can be cited.  The others are about the order   *)
(* in which a recursion goes through a set, about sets of sequences that   *)
(* are finite, about a change that is repeated until nothing changes, and  *)
(* about what is the same in two endless runs.                             *)
(***************************************************************************)
EXTENDS Integers, SequencesExt, FiniteSetTheorems, WellFoundedInduction, TLAPS

\* Every inhabited set of naturals has a least member.
LEMMA LeastNatural ==
  ASSUME NEW S \in SUBSET Nat, S # {}
  PROVE  \E m \in S : \A k \in S : m <= k
<1> DEFINE Less == OpToRel(<, Nat)
<1>1. \A x, y \in Nat : x < y => <<x, y>> \in Less
  BY DEF OpToRel
<1>2. IsWellFoundedOn(Less, Nat)
  BY NatLessThanWellFounded
<1> HIDE DEF Less
<1>3. PICK m \in S : \A k \in S : ~(<<k, m>> \in Less)
  BY <1>2, WFMin
<1>4. \A k \in S : ~(k < m)
  BY <1>1, <1>3
<1> QED BY <1>3, <1>4

\* A set that holds 0 and with each number below n the next one holds 0 .. n.
LEMMA Counting ==
  ASSUME NEW n \in Nat, NEW S, 0 \in S,
         \A k \in 0 .. n - 1 : k \in S => k + 1 \in S
  PROVE  0 .. n \subseteq S
<1> DEFINE Bad == {k \in 0 .. n : k \notin S}
<1> SUFFICES ASSUME Bad # {} PROVE FALSE
  OBVIOUS
<1>1. Bad \in SUBSET Nat
  OBVIOUS
<1>2. PICK m \in Bad : \A k \in Bad : m <= k
  BY <1>1, LeastNatural
<1>3. m # 0 /\ m - 1 \in 0 .. n - 1 /\ m - 1 \notin Bad
  BY <1>2
<1>4. m - 1 \in S
  BY <1>3
<1>5. (m - 1) + 1 \in S
  BY <1>3, <1>4
<1> QED BY <1>2, <1>5

\* f goes from start by a step for each of 1 .. n.
Follows(f, n, start, step) == f[0] = start /\ \A k \in 1 .. n : f[k] = step[k][f[k - 1]]

\* Such functions exist.
LEMMA RecursionExists ==
  ASSUME NEW n \in Nat, NEW S, NEW start \in S, NEW step \in [1 .. n -> [S -> S]]
  PROVE  \E f \in [0 .. n -> S] : Follows(f, n, start, step)
<1> DEFINE Good == {m \in 0 .. n : \E f \in [0 .. m -> S] : Follows(f, m, start, step)}
<1>1. 0 \in Good
  <2> DEFINE f == [k \in 0 .. 0 |-> start]
  <2>1. f \in [0 .. 0 -> S] /\ Follows(f, 0, start, step)
    BY DEF Follows
  <2>2. 0 \in 0 .. n
    OBVIOUS
  <2> HIDE DEF f
  <2> QED BY <2>1, <2>2
<1>2. ASSUME NEW m \in 0 .. n - 1, m \in Good PROVE m + 1 \in Good
  <2>1. PICK f \in [0 .. m -> S] : Follows(f, m, start, step)
    BY <1>2
  <2> DEFINE g == [k \in 0 .. m + 1 |-> IF k = m + 1 THEN step[m + 1][f[m]] ELSE f[k]]
  <2>2. step[m + 1][f[m]] \in S
    OBVIOUS
  <2>3. g \in [0 .. m + 1 -> S]
    BY <2>2
  <2>4. g[0] = start /\ \A k \in 1 .. m + 1 : g[k] = step[k][g[k - 1]]
    BY <2>1 DEF Follows
  <2>5. m + 1 \in 0 .. n
    OBVIOUS
  <2>6. Follows(g, m + 1, start, step)
    BY <2>4 DEF Follows
  <2> HIDE DEF g
  <2> QED BY <2>3, <2>5, <2>6
<1>3. n \in Good
  <2> HIDE DEF Good
  <2>1. \A k \in 0 .. n - 1 : k \in Good => k + 1 \in Good
    BY <1>2
  <2>2. 0 .. n \subseteq Good
    BY <1>1, <2>1, Counting
  <2> QED BY <2>2
<1> QED BY <1>3

\* A sequence made of a finite set has all of its elements.
LEMMA SetToSeqComplete ==
  ASSUME NEW S, IsFiniteSet(S)
  PROVE  /\ SetToSeq(S) \in [1 .. Cardinality(S) -> S]
         /\ \A x \in S : \E k \in 1 .. Cardinality(S) : SetToSeq(S)[k] = x
<1> DEFINE n == Cardinality(S)
           Order == SetToSeq(S)
<1>1. n \in Nat
  BY FS_CardinalityType
<1>2. PICK g \in Bijection(1 .. n, S) : TRUE
  BY FS_CardinalityType DEF ExistsBijection
<1>3. g \in [1 .. n -> S] /\ IsInjective(g)
  BY <1>2 DEF Bijection, Injection, IsInjective
<1>4. Order \in [1 .. n -> S] /\ IsInjective(Order)
  BY <1>3 DEF SetToSeq
<1>5. Order \in Injection(1 .. n, S)
  BY <1>4 DEF Injection, IsInjective
<1>6. Cardinality(1 .. n) = n
  BY <1>1, FS_Interval
<1>7. Order \in Surjection(1 .. n, S)
  BY <1>5, <1>6, FS_Injection
<1> QED BY <1>4, <1>7 DEF Surjection

\* There are finitely many sequences of one length over a finite set.
LEMMA FinitelyManySequences ==
  ASSUME NEW S, IsFiniteSet(S), NEW n \in Nat
  PROVE  IsFiniteSet([1 .. n -> S])
<1> DEFINE Of(k) == [1 .. k -> S]
           Good == {k \in 0 .. n : IsFiniteSet(Of(k))}
<1>1. 0 \in Good
  <2>1. ASSUME NEW f \in Of(0), NEW g \in Of(0) PROVE f = g
    OBVIOUS
  <2> DEFINE none == [i \in 1 .. 0 |-> {}]
  <2>2. none \in Of(0)
    OBVIOUS
  <2>3. Of(0) = {none}
    BY <2>1, <2>2
  <2> HIDE DEF none, Of
  <2>4. IsFiniteSet(Of(0))
    <3>1. \A x : IsFiniteSet({x})
      BY FS_Singleton
    <3> QED BY ONLY <2>3, <3>1
  <2> QED BY <2>4
<1>2. ASSUME NEW k \in 0 .. n - 1, k \in Good PROVE k + 1 \in Good
  <2> DEFINE Longer == [r \in Of(k) \X S |->
                          [i \in 1 .. k + 1 |-> IF i = k + 1 THEN r[2] ELSE r[1][i]]]
  <2>1. IsFiniteSet(Of(k) \X S)
    <3> HIDE DEF Of
    <3> QED BY <1>2, FS_Product
  <2>2. Longer \in [Of(k) \X S -> Of(k + 1)]
    <3> SUFFICES ASSUME NEW r \in Of(k) \X S PROVE Longer[r] \in Of(k + 1)
      OBVIOUS
    <3>1. r[1] \in Of(k) /\ r[2] \in S
      OBVIOUS
    <3>2. \A i \in 1 .. k + 1 : i = k + 1 \/ i \in 1 .. k
      OBVIOUS
    <3> QED BY <3>1, <3>2
  <2>3. ASSUME NEW f \in Of(k + 1) PROVE \E r \in Of(k) \X S : Longer[r] = f
    <3> DEFINE start == [i \in 1 .. k |-> f[i]]
               r == <<start, f[k + 1]>>
    <3>1. start \in Of(k) /\ f[k + 1] \in S
      OBVIOUS
    <3>2. r \in Of(k) \X S /\ r[1] = start /\ r[2] = f[k + 1]
      BY <3>1
    <3>3. \A i \in 1 .. k + 1 : i # k + 1 => i \in 1 .. k
      OBVIOUS
    <3>4. [i \in 1 .. k + 1 |-> IF i = k + 1 THEN f[k + 1] ELSE start[i]] = f
      BY <3>3
    <3>5. Longer[r] = f
      BY <3>2, <3>4
    <3> QED BY <3>2, <3>5
  <2>4. Longer \in Surjection(Of(k) \X S, Of(k + 1))
    BY <2>2, <2>3 DEF Surjection
  <2>5. k + 1 \in 0 .. n
    OBVIOUS
  <2> HIDE DEF Longer, Of
  <2>6. IsFiniteSet(Of(k + 1))
    BY <2>1, <2>4, FS_Surjection
  <2> QED BY <2>5, <2>6
<1>3. n \in Good
  <2> HIDE DEF Good
  <2>1. 0 .. n \subseteq Good
    BY <1>1, <1>2, Counting
  <2> QED BY <2>1
<1> QED BY <1>3

\* f is what comes of going from x to next[x] for as long as that is a change.
Settles(f, S, next) == \A x \in S : f[x] = IF next[x] = x THEN x ELSE f[next[x]]

\* When every change lowers a rank, such a function exists.
LEMMA SettlingExists ==
  ASSUME NEW S, NEW n \in Nat, NEW rank \in [S -> 0 .. n], NEW next \in [S -> S],
         \A x \in S : next[x] # x => rank[next[x]] < rank[x]
  PROVE  \E f \in [S -> S] : Settles(f, S, next)
<1> DEFINE start == [x \in S |-> x]
           step == [k \in 1 .. n |-> [g \in [S -> S] |-> [x \in S |-> next[g[x]]]]]
<1>1. start \in [S -> S] /\ step \in [1 .. n -> [[S -> S] -> [S -> S]]]
  OBVIOUS
<1>2. PICK it \in [0 .. n -> [S -> S]] : Follows(it, n, start, step)
  <2> HIDE DEF start, step
  <2> QED BY <1>1, RecursionExists
<1>3. /\ \A x \in S : it[0][x] = x
      /\ \A k \in 0 .. n - 1 : \A x \in S : it[k + 1][x] = next[it[k][x]]
  <2>1. \A x \in S : it[0][x] = x
    BY <1>2 DEF Follows
  <2>2. ASSUME NEW k \in 0 .. n - 1, NEW x \in S PROVE it[k + 1][x] = next[it[k][x]]
    <3>1. k + 1 \in 1 .. n /\ (k + 1) - 1 = k /\ it[k] \in [S -> S]
      OBVIOUS
    <3>2. it[k + 1] = step[k + 1][it[k]]
      BY <1>2, <3>1 DEF Follows
    <3> QED BY <3>1, <3>2
  <2> QED BY <2>1, <2>2
<1> HIDE DEF start, step
<1>4. \A k \in 0 .. n : \A x \in S : it[k][x] \in S
  BY <1>2
<1> DEFINE Good == {k \in 0 .. n : \A x \in S :
                      /\ it[k][next[x]] = next[it[k][x]]
                      /\ next[it[k][x]] = it[k][x] \/ rank[it[k][x]] + k <= rank[x]
                      /\ next[x] = x => it[k][x] = x}
<1>5. 0 \in Good
  BY <1>3
<1>6. ASSUME NEW k \in 0 .. n - 1, k \in Good PROVE k + 1 \in Good
  <2> SUFFICES ASSUME NEW x \in S
               PROVE  /\ it[k + 1][next[x]] = next[it[k + 1][x]]
                      /\ \/ next[it[k + 1][x]] = it[k + 1][x]
                         \/ rank[it[k + 1][x]] + (k + 1) <= rank[x]
                      /\ next[x] = x => it[k + 1][x] = x
    OBVIOUS
  <2> DEFINE y == it[k][x]
  <2>0. k \in 0 .. n
    OBVIOUS
  <2>1. y \in S /\ next[y] \in S /\ next[x] \in S
    <3>1. y \in S
      BY <1>4, <2>0
    <3> HIDE DEF y
    <3> QED BY <3>1
  <2>2. it[k + 1][x] = next[y] /\ it[k + 1][next[x]] = next[it[k][next[x]]]
    BY <1>3, <2>1
  <2>3. /\ it[k][next[x]] = next[y]
        /\ next[y] = y \/ rank[y] + k <= rank[x]
        /\ next[x] = x => y = x
    BY <1>6
  <2>4. rank[y] \in Int /\ rank[next[y]] \in Int /\ rank[x] \in Int
    BY <2>1
  <2>5. next[y] # y => rank[next[y]] + (k + 1) <= rank[x]
    BY <2>1, <2>3, <2>4
  <2> HIDE DEF y
  <2> QED BY <2>2, <2>3, <2>5
<1>7. n \in Good
  <2> HIDE DEF Good
  <2>1. 0 .. n \subseteq Good
    BY <1>5, <1>6, Counting
  <2> QED BY <2>1
<1> DEFINE f == it[n]
<1>8. f \in [S -> S]
  OBVIOUS
<1>9. ASSUME NEW x \in S PROVE next[f[x]] = f[x]
  <2>1. f[x] \in S /\ rank[x] \in 0 .. n /\ rank[f[x]] \in 0 .. n
    BY <1>8
  <2>2. next[f[x]] = f[x] \/ rank[f[x]] + n <= rank[x]
    BY <1>7
  <2>3. next[f[x]] # f[x] => rank[next[f[x]]] \in 0 .. n /\ rank[next[f[x]]] < rank[f[x]]
    BY <2>1
  <2> QED BY <2>1, <2>2, <2>3
<1>10. \A x \in S : f[next[x]] = next[f[x]] /\ (next[x] = x => f[x] = x)
  BY <1>7
<1>11. Settles(f, S, next)
  <2> HIDE DEF f
  <2> QED BY <1>9, <1>10 DEF Settles
<1> QED BY <1>8, <1>11

\* Every change lowers a rank.
Descends(S, next, rank) ==
  rank \in [S -> Nat] /\ \A x \in S : next[x] \in S /\ (next[x] # x => rank[next[x]] < rank[x])

Closed(G, S, next) == G \subseteq S /\ \A x \in G : next[x] \in G

\* What the change keeps, it ends with.
LEMMA SettlingKeeps ==
  ASSUME NEW S, NEW next, NEW rank, Descends(S, next, rank),
         NEW f, Settles(f, S, next), NEW G, Closed(G, S, next)
  PROVE  \A x \in G : f[x] \in G
<1> USE DEF Descends, Closed
<1> DEFINE Bad == {x \in G : f[x] \notin G}
           Ranks == {rank[x] : x \in Bad}
<1> SUFFICES ASSUME Bad # {} PROVE FALSE
  OBVIOUS
<1>1. Ranks \in SUBSET Nat /\ Ranks # {}
  OBVIOUS
<1>2. PICK m \in Ranks : \A k \in Ranks : m <= k
  BY <1>1, LeastNatural
<1>3. PICK x \in Bad : m = rank[x]
  BY <1>2
<1>4. x \in S /\ next[x] \in G /\ next[x] \in S
  BY <1>3
<1>5. next[x] # x /\ f[x] = f[next[x]]
  BY <1>3, <1>4 DEF Settles
<1>6. next[x] \in Bad
  BY <1>3, <1>4, <1>5
<1>7. rank[next[x]] \in Ranks /\ rank[next[x]] < rank[x] /\ rank[x] \in Int /\ rank[next[x]] \in Int
  BY <1>4, <1>5, <1>6
<1>8. m <= rank[next[x]]
  BY <1>2, <1>7
<1> QED BY <1>3, <1>7, <1>8

\* f repeats the step without end.
Repeats(f, start, step) == f[0] = start /\ \A k \in Nat : f[k + 1] = step[f[k]]

\* A step can be repeated without end.
LEMMA EndlessExists ==
  ASSUME NEW S, NEW start \in S, NEW step \in [S -> S]
  PROVE  \E f \in [Nat -> S] : Repeats(f, start, step)
<1> DEFINE steps(n) == [k \in 1 .. n |-> step]
           Is(n, f) == f \in [0 .. n -> S] /\ Follows(f, n, start, steps(n))
           walk == [n \in Nat |-> CHOOSE f : Is(n, f)]
           g == [n \in Nat |-> walk[n][n]]
<1>1. ASSUME NEW n \in Nat PROVE Is(n, walk[n])
  <2>1. steps(n) \in [1 .. n -> [S -> S]]
    OBVIOUS
  <2>2. \E f : Is(n, f)
    <3> HIDE DEF steps
    <3> QED BY <2>1, RecursionExists
  <2> HIDE DEF Is
  <2> QED BY <2>2
<1>2. ASSUME NEW n \in Nat PROVE walk[n][0] = start /\ \A k \in 1 .. n : walk[n][k] = step[walk[n][k - 1]]
  BY <1>1 DEF Follows
<1>3. ASSUME NEW n \in Nat PROVE walk[n][n] \in S
  BY <1>1
<1> HIDE DEF walk
<1>4. ASSUME NEW n \in Nat PROVE walk[n + 1][n] = walk[n][n]
  <2> DEFINE Good == {k \in 0 .. n : walk[n + 1][k] = walk[n][k]}
  <2>1. 0 \in Good
    BY <1>2
  <2>2. ASSUME NEW k \in 0 .. n - 1, k \in Good PROVE k + 1 \in Good
    <3>1. k + 1 \in 1 .. n /\ k + 1 \in 1 .. n + 1 /\ (k + 1) - 1 = k /\ k + 1 \in 0 .. n
      OBVIOUS
    <3>2. walk[n + 1][k + 1] = step[walk[n + 1][k]] /\ walk[n][k + 1] = step[walk[n][k]]
      BY <1>2, <3>1
    <3> QED BY <2>2, <3>1, <3>2
  <2> HIDE DEF Good
  <2>3. 0 .. n \subseteq Good
    BY <2>1, <2>2, Counting
  <2>4. n \in 0 .. n
    OBVIOUS
  <2> QED BY <2>3, <2>4 DEF Good
<1>5. g \in [Nat -> S]
  BY <1>3
<1>6. g[0] = start
  BY <1>2
<1>7. ASSUME NEW k \in Nat PROVE g[k + 1] = step[g[k]]
  <2>1. k + 1 \in Nat /\ k + 1 \in 1 .. k + 1 /\ (k + 1) - 1 = k
    OBVIOUS
  <2>2. walk[k + 1][k + 1] = step[walk[k + 1][k]]
    BY <1>2, <2>1
  <2> QED BY <1>4, <2>1, <2>2
<1> HIDE DEF g
<1> QED BY <1>5, <1>6, <1>7 DEF Repeats

\* w stays as it is at j until j2, or for ever.
Constant(w, j, j2) == \A k \in j .. j2 - 1 : w[k] = w[j]

\* From each of the places in M, with its rank, w is constant for ever, or until a later
\* place or one of lower rank.
Covering(w, M) ==
  /\ M \subseteq Nat \X Nat
  /\ \E r \in Nat : <<0, r>> \in M
  /\ \A j, r \in Nat : <<j, r>> \in M =>
       \/ \A k \in Nat : j <= k => w[k] = w[j]
       \/ \E j2, r2 \in Nat : /\ <<j2, r2>> \in M
                              /\ j < j2 \/ (j = j2 /\ r2 < r)
                              /\ Constant(w, j, j2)

\* Then every value of w is its value at one of the places.
LEMMA Covered ==
  ASSUME NEW w, NEW M, Covering(w, M), NEW n \in Nat
  PROVE  \E j, r \in Nat : <<j, r>> \in M /\ w[n] = w[j]
<1> DEFINE Left == {d \in Nat : \E r \in Nat : n - d \in Nat /\ <<n - d, r>> \in M}
<1>1. Left \in SUBSET Nat /\ Left # {}
  <2>1. PICK r \in Nat : <<0, r>> \in M
    BY DEF Covering
  <2>2. n - n = 0 /\ n - n \in Nat
    OBVIOUS
  <2>3. n \in Left
    BY <2>1, <2>2
  <2> QED BY <2>3
<1>2. PICK d \in Left : \A e \in Left : d <= e
  BY <1>1, LeastNatural
<1> DEFINE j == n - d
           Ranks == {r \in Nat : <<j, r>> \in M}
<1>3. j \in Nat /\ j <= n /\ Ranks \in SUBSET Nat /\ Ranks # {}
  <2>1. d \in Nat /\ n - d \in Nat /\ \E r \in Nat : <<n - d, r>> \in M
    BY <1>2
  <2>2. n - d <= n
    BY <2>1
  <2> QED BY <2>1, <2>2
<1>4. PICK r \in Ranks : \A q \in Ranks : r <= q
  <2> HIDE DEF Ranks
  <2> QED BY <1>3, LeastNatural
<1>5. CASE \A k \in Nat : j <= k => w[k] = w[j]
  BY <1>3, <1>4, <1>5
<1>6. CASE \E j2, r2 \in Nat : <<j2, r2>> \in M /\ (j < j2 \/ (j = j2 /\ r2 < r)) /\ Constant(w, j, j2)
  <2>1. PICK j2 \in Nat, r2 \in Nat : <<j2, r2>> \in M /\ (j < j2 \/ (j = j2 /\ r2 < r)) /\ Constant(w, j, j2)
    BY <1>6
  <2>2. j < j2
    <3> SUFFICES ASSUME j = j2, r2 < r PROVE FALSE
      BY <2>1
    <3>1. r2 \in Ranks /\ r \in Nat
      BY <1>4, <2>1
    <3> HIDE DEF Ranks
    <3> QED BY <1>4, <3>1
  <2>3. n < j2
    <3> SUFFICES ASSUME j2 <= n PROVE FALSE
      BY <2>1
    <3>1. n - j2 \in Nat /\ n - (n - j2) = j2
      OBVIOUS
    <3>2. n - j2 \in Left
      BY <2>1, <3>1
    <3>3. d <= n - j2
      BY <1>2, <3>2
    <3>4. d \in Nat /\ n - d < j2
      BY <1>2, <2>2
    <3> HIDE DEF Left, j
    <3> QED BY <3>3, <3>4
  <2>4. n \in j .. j2 - 1
    <3> HIDE DEF j
    <3> QED BY <1>3, <2>3
  <2> QED BY <1>3, <1>4, <2>1, <2>4 DEF Constant
<1>7. <<j, r>> \in M /\ r \in Nat
  BY <1>4
<1> HIDE DEF j, Ranks, Left
<1> QED BY <1>3, <1>5, <1>6, <1>7 DEF Covering
==============================================================================
