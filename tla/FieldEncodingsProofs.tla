------------------------- MODULE FieldEncodingsProofs -------------------------
(***************************************************************************)
(* Proofs about FieldEncodings: the encodings of a form match exactly the  *)
(* words that the check of an instruction word accepts, and with that the  *)
(* restrictions handed to GreenThumb allow exactly what the candidate      *)
(* supports; what is drawn from them is legal, and drawing can end.  They  *)
(* rest on what a merge, a constraint and the concatenation of the fields  *)
(* mean for the words that the patterns match.                             *)
(***************************************************************************)
EXTENDS FieldEncodings, Recursion, SequenceTheorems

(***************************************************************************)
(* Patterns of one width, the words they match, and merging.               *)
(***************************************************************************)

WordsOfWidth(width) == [1 .. width -> Concrete]

\* What a pattern is as a sequence.
LEMMA PatternShape ==
  ASSUME NEW w \in Nat, NEW p \in PatternsOf(w)
  PROVE  DOMAIN p = 1 .. w /\ Len(p) = w /\ p \in Seq(Bit)
BY DEF PatternsOf

\* A pattern is one of its own length.
LEMMA PatternOfLength ==
  ASSUME NEW p \in Seq(Bit)
  PROVE  Len(p) \in Nat /\ DOMAIN p = 1 .. Len(p) /\ p \in PatternsOf(Len(p))
BY DEF PatternsOf

\* A word is a sequence and a pattern without variable bits.
LEMMA WordShape ==
  ASSUME NEW w \in Nat, NEW v \in WordsOfWidth(w)
  PROVE  DOMAIN v = 1 .. w /\ Len(v) = w /\ v \in Seq(Concrete) /\ v \in PatternsOf(w)
BY DEF WordsOfWidth, PatternsOf, Concrete, Bit

\* Words with the same bits are the same.
LEMMA SameWord ==
  ASSUME NEW n, NEW v \in WordsOfWidth(n), NEW w \in WordsOfWidth(n),
         \A k \in 1 .. n : v[k] = w[k]
  PROVE  v = w
<1>1. v = [k \in 1 .. n |-> v[k]] /\ w = [k \in 1 .. n |-> w[k]]
  BY DEF WordsOfWidth
<1>2. [k \in 1 .. n |-> v[k]] = [k \in 1 .. n |-> w[k]]
  OBVIOUS
<1> QED BY <1>1, <1>2, Zenon

\* A pattern and a word of its width, bit by bit.
LEMMA MatchesMeans ==
  ASSUME NEW w \in Nat, NEW p \in PatternsOf(w), NEW v \in WordsOfWidth(w)
  PROVE  MatchesBits(p, v) <=> \A k \in 1 .. w : p[k] = "x" \/ p[k] = v[k]
BY PatternShape, WordShape DEF MatchesBits

\* A cube covers another where each bit is variable or the same.
LEMMA CoversMeans ==
  ASSUME NEW w \in Nat, NEW p \in PatternsOf(w), NEW q \in PatternsOf(w)
  PROVE  Covers(p, q) <=> \A k \in 1 .. w : p[k] = "x" \/ p[k] = q[k]
BY PatternShape DEF Covers

\* Covering is an order.
LEMMA CoversOrder ==
  ASSUME NEW w \in Nat, NEW p \in PatternsOf(w), NEW q \in PatternsOf(w),
         NEW r \in PatternsOf(w)
  PROVE  /\ Covers(p, p)
         /\ Covers(p, q) /\ Covers(q, r) => Covers(p, r)
         /\ Covers(p, q) /\ Covers(q, p) => p = q
<1>1. Covers(p, p)
  BY CoversMeans
<1>2. Covers(p, q) /\ Covers(q, r) => Covers(p, r)
  BY CoversMeans
<1>3. ASSUME Covers(p, q), Covers(q, p) PROVE p = q
  <2>1. \A k \in 1 .. w : p[k] = q[k]
    BY <1>3, CoversMeans
  <2> QED BY <2>1 DEF PatternsOf
<1> QED BY <1>1, <1>2, <1>3

\* What a covered pattern matches, the covering one does.
LEMMA CoversMatches ==
  ASSUME NEW w \in Nat, NEW p \in PatternsOf(w), NEW q \in PatternsOf(w),
         NEW v \in WordsOfWidth(w), Covers(p, q), MatchesBits(q, v)
  PROVE  MatchesBits(p, v)
BY CoversMeans, MatchesMeans

\* There are finitely many patterns of a width.
LEMMA FinitePatterns ==
  ASSUME NEW w \in Nat
  PROVE  IsFiniteSet(PatternsOf(w))
<1>1. IsFiniteSet({"0"}) /\ IsFiniteSet({"1"}) /\ IsFiniteSet({"x"})
  BY FS_Singleton
<1>2. IsFiniteSet({"0"} \cup {"1"})
  BY <1>1, FS_Union
<1>3. IsFiniteSet(({"0"} \cup {"1"}) \cup {"x"})
  BY <1>1, <1>2, FS_Union
<1>4. Bit = ({"0"} \cup {"1"}) \cup {"x"}
  BY DEF Bit
<1> QED BY <1>3, <1>4, FinitelyManySequences DEF PatternsOf

\* The cubes inside one of the patterns.
Below(w, ps) == {q \in PatternsOf(w) : \E p \in ps : Covers(p, q)}

\* None of the patterns lies within another.
Antichain(ps) == \A p, q \in ps : Covers(p, q) => p = q

\* Whatever is inside a pattern is inside one that is not subsumed: the one with the
\* fewest cubes outside of it.
LEMMA NotSubsumed ==
  ASSUME NEW w \in Nat, NEW ps \in SUBSET PatternsOf(w), NEW p \in ps
  PROVE  \E q \in RemoveSubsumed(ps) : Covers(q, p)
<1> DEFINE P == PatternsOf(w)
           Out(q) == P \ Below(w, {q})
           Sizes == {Cardinality(Out(q)) : q \in {r \in ps : Covers(r, p)}}
<1>1. \A q \in ps : IsFiniteSet(Out(q)) /\ Cardinality(Out(q)) \in Nat
  BY FinitePatterns, FS_Subset, FS_CardinalityType, \A q : Out(q) \in SUBSET P
<1>2. Covers(p, p)
  BY CoversOrder
<1>3. Sizes \in SUBSET Nat /\ Sizes # {}
  BY <1>1, <1>2
<1>4. PICK m \in Sizes : \A k \in Sizes : m <= k
  BY <1>3, LeastNatural
<1>5. PICK q \in ps : Covers(q, p) /\ m = Cardinality(Out(q))
  BY <1>4
<1>6. ASSUME NEW r \in ps, r # q, Covers(r, q) PROVE FALSE
  <2>1. Covers(r, p) /\ ~Covers(q, r)
    BY <1>5, <1>6, CoversOrder
  <2>2. Out(r) \subseteq Out(q)
    BY <1>6, CoversOrder DEF Below
  <2>3. r \in Out(q) /\ r \notin Out(r)
    BY <2>1, CoversOrder DEF Below
  <2>4. Cardinality(Out(r)) < Cardinality(Out(q))
    <3> HIDE DEF Out
    <3>1. Cardinality(Out(r)) <= Cardinality(Out(q)) /\ Cardinality(Out(r)) # Cardinality(Out(q))
      BY <1>1, <2>2, <2>3, FS_Subset
    <3> QED BY <1>1, <3>1
  <2>5. Cardinality(Out(r)) \in Sizes
    BY <2>1
  <2> HIDE DEF Out
  <2>6. m <= Cardinality(Out(r))
    BY <1>4, <2>5
  <2> QED BY <1>1, <1>5, <2>4, <2>6
<1> QED BY <1>5, <1>6 DEF RemoveSubsumed

\* What RemoveSubsumed leaves has no cube inside another.
LEMMA SubsumedGone ==
  ASSUME NEW ps
  PROVE  RemoveSubsumed(ps) \subseteq ps /\ Antichain(RemoveSubsumed(ps))
BY DEF RemoveSubsumed, Antichain

\* Two patterns that merge, and what they merge to.
LEMMA MergeWithMeans ==
  ASSUME NEW w \in Nat, NEW p \in PatternsOf(w), NEW q \in PatternsOf(w),
         CanMergeWith(p, q)
  PROVE  /\ MergeWith(p, q) \in PatternsOf(w)
         /\ Covers(MergeWith(p, q), p) /\ Covers(MergeWith(p, q), q)
         /\ ~Covers(p, MergeWith(p, q))
         /\ \A v \in WordsOfWidth(w) :
              MatchesBits(MergeWith(p, q), v) => MatchesBits(p, v) \/ MatchesBits(q, v)
<1>1. PICK i \in 1 .. w : Opposed(p, q, i) /\ \A j \in (1 .. w) \ {i} : p[j] = q[j]
  BY PatternShape DEF CanMergeWith
<1> DEFINE m == MergeWith(p, q)
<1>2. /\ p[i] # q[i] /\ p[i] # "x" /\ q[i] # "x"
      /\ \A b \in Concrete : b = p[i] \/ b = q[i]
  BY <1>1 DEF Opposed, Concrete
<1>3. m \in PatternsOf(w)
  BY PatternShape DEF MergeWith, PatternsOf, Bit
<1>4. m[i] = "x" /\ \A j \in (1 .. w) \ {i} : m[j] = p[j] /\ m[j] = q[j]
  BY <1>1, <1>2, PatternShape DEF MergeWith
<1> HIDE DEF m
<1>5. Covers(m, p) /\ Covers(m, q) /\ ~Covers(p, m)
  BY <1>2, <1>3, <1>4, CoversMeans
<1>6. ASSUME NEW v \in WordsOfWidth(w), MatchesBits(m, v)
      PROVE  MatchesBits(p, v) \/ MatchesBits(q, v)
  <2>1. v[i] = p[i] \/ v[i] = q[i]
    BY <1>2 DEF WordsOfWidth
  <2>2. \A j \in (1 .. w) \ {i} : p[j] = q[j] /\ (p[j] = "x" \/ p[j] = v[j])
    BY <1>3, <1>4, <1>6, MatchesMeans
  <2> QED BY <2>1, <2>2, MatchesMeans
<1> QED BY <1>3, <1>5, <1>6 DEF m

\* A round gains and loses nothing, and makes the cubes inside the patterns more
\* when it is a change.
LEMMA RoundMeans ==
  ASSUME NEW w \in Nat, NEW ps \in SUBSET PatternsOf(w)
  PROVE  /\ NextRound(ps) \in SUBSET PatternsOf(w)
         /\ Antichain(NextRound(ps))
         /\ \A p \in ps : \E q \in NextRound(ps) : Covers(q, p)
         /\ \A q \in NextRound(ps), v \in WordsOfWidth(w) :
              MatchesBits(q, v) => \E p \in ps : MatchesBits(p, v)
         /\ Antichain(ps) /\ NextRound(ps) # ps =>
              \E q \in NextRound(ps) : q \notin Below(w, ps)
<1> DEFINE new == (ps \ Mergeable(ps)) \cup Merged(ps)
<1>1. NextRound(ps) = RemoveSubsumed(new)
  BY DEF NextRound
<1>2. ASSUME NEW m \in Merged(ps)
      PROVE  \E p \in ps, q \in ps : CanMergeWith(p, q) /\ m = MergeWith(p, q)
  BY DEF Merged
<1>3. ASSUME NEW p \in ps, NEW q \in ps, CanMergeWith(p, q) PROVE MergeWith(p, q) \in Merged(ps)
  <2>1. <<p, q>> \in {r \in ps \X ps : CanMergeWith(r[1], r[2])}
    BY <1>3
  <2> QED BY <2>1 DEF Merged
<1>4. new \in SUBSET PatternsOf(w)
  BY <1>2, MergeWithMeans
<1> HIDE DEF new
<1>5. NextRound(ps) \in SUBSET PatternsOf(w) /\ Antichain(NextRound(ps))
  BY <1>1, <1>4, SubsumedGone
<1>6. ASSUME NEW p \in new PROVE \E q \in NextRound(ps) : Covers(q, p)
  BY <1>1, <1>4, NotSubsumed
<1>7. ASSUME NEW p \in ps PROVE \E q \in NextRound(ps) : Covers(q, p)
  <2>1. CASE p \in new
    BY <1>6, <2>1
  <2>2. CASE p \notin new
    <3>1. PICK q \in ps : CanMergeWith(p, q)
      BY <2>2 DEF new, Mergeable
    <3>2. MergeWith(p, q) \in new /\ MergeWith(p, q) \in PatternsOf(w) /\ Covers(MergeWith(p, q), p)
      BY <1>3, <3>1, MergeWithMeans DEF new
    <3>3. PICK r \in NextRound(ps) : Covers(r, MergeWith(p, q))
      BY <1>6, <3>2
    <3>4. r \in PatternsOf(w)
      BY <1>5
    <3>5. Covers(r, p)
      BY <3>2, <3>3, <3>4, CoversOrder
    <3> QED BY <3>5
  <2> QED BY <2>1, <2>2
<1>8. ASSUME NEW q \in NextRound(ps), NEW v \in WordsOfWidth(w), MatchesBits(q, v)
      PROVE  \E p \in ps : MatchesBits(p, v)
  <2>1. q \in new
    BY <1>1, SubsumedGone
  <2>2. CASE q \in ps
    BY <1>8, <2>2
  <2>3. CASE q \in Merged(ps)
    <3>1. PICK p \in ps, r \in ps : CanMergeWith(p, r) /\ q = MergeWith(p, r)
      BY <1>2, <2>3
    <3>2. MatchesBits(p, v) \/ MatchesBits(r, v)
      BY <1>8, <3>1, MergeWithMeans
    <3> QED BY <3>2
  <2> QED BY <2>1, <2>2, <2>3 DEF new
<1>9. ASSUME Antichain(ps), NextRound(ps) # ps
      PROVE  \E q \in NextRound(ps) : q \notin Below(w, ps)
  <2>1. \E p \in ps, q \in ps : CanMergeWith(p, q)
    <3> SUFFICES ASSUME \A p \in ps, q \in ps : ~CanMergeWith(p, q) PROVE FALSE
      OBVIOUS
    <3>1. Merged(ps) = {} /\ Mergeable(ps) = {}
      BY <1>2 DEF Mergeable
    <3>2. new = ps
      BY <3>1 DEF new
    <3>3. RemoveSubsumed(ps) = ps
      BY <1>9 DEF RemoveSubsumed, Antichain
    <3> QED BY <1>1, <1>9, <3>2, <3>3
  <2>2. PICK p \in ps, q \in ps : CanMergeWith(p, q)
    BY <2>1
  <2> DEFINE m == MergeWith(p, q)
  <2>3. m \in new /\ m \in PatternsOf(w) /\ Covers(m, p) /\ ~Covers(p, m)
    BY <1>3, <2>2, MergeWithMeans DEF new
  <2> HIDE DEF m
  <2>4. PICK r \in NextRound(ps) : Covers(r, m)
    BY <1>6, <2>3
  <2>5. r \in PatternsOf(w)
    BY <1>5
  <2>6. ASSUME NEW s \in ps, Covers(s, r) PROVE FALSE
    <3>1. s \in PatternsOf(w) /\ p \in PatternsOf(w)
      OBVIOUS
    <3>2. Covers(s, m)
      BY <2>3, <2>4, <2>5, <2>6, <3>1, CoversOrder
    <3>3. Covers(s, p)
      BY <2>3, <3>1, <3>2, CoversOrder
    <3>4. s = p
      BY <1>9, <3>3 DEF Antichain
    <3> QED BY <2>3, <3>2, <3>4
  <2> QED BY <2>6 DEF Below
<1> QED BY <1>5, <1>7, <1>8, <1>9

\* The words that some pattern matches.
Matched(ps, v) == \E p \in ps : MatchesBits(p, v)

\* merge ends, with patterns of the same width that match the same words.  Every
\* round that is a change adds to the cubes inside the patterns.
LEMMA MergeOfMeans ==
  ASSUME NEW w \in Nat, NEW ps \in SUBSET PatternsOf(w)
  PROVE  /\ MergeOf(ps) \in SUBSET PatternsOf(w)
         /\ \A v \in WordsOfWidth(w) : Matched(MergeOf(ps), v) <=> Matched(ps, v)
<1>1. CASE ps = {}
  BY <1>1 DEF MergeOf
<1>2. CASE ps # {}
  <2> DEFINE P == PatternsOf(w)
             Body(f) == [qs \in SUBSET P |->
                           IF NextRound(qs) = qs THEN qs ELSE f[NextRound(qs)]]
             settled == CHOOSE f : f = Body(f)
             next == [qs \in SUBSET P |-> NextRound(qs)]
             Out(qs) == P \ Below(w, qs)
             n == Cardinality(P)
             rank == [qs \in SUBSET P |->
                        Cardinality(Out(qs)) + (IF Antichain(qs) THEN 0 ELSE 1)]
  <2>1. Len(CHOOSE p \in ps : TRUE) = w
    BY <1>2, PatternShape
  <2>2. MergeOf(ps) = settled[RemoveSubsumed(ps)]
    BY <1>2, <2>1 DEF MergeOf
  <2>3. n \in Nat /\ IsFiniteSet(P)
    BY FinitePatterns, FS_CardinalityType
  <2>4. next \in [SUBSET P -> SUBSET P]
    BY RoundMeans
  <2>5. \A qs \in SUBSET P : Cardinality(Out(qs)) \in Nat /\ IsFiniteSet(Out(qs)) /\ Cardinality(Out(qs)) <= n
    <3> SUFFICES ASSUME NEW qs \in SUBSET P
                 PROVE  /\ Cardinality(Out(qs)) \in Nat /\ IsFiniteSet(Out(qs))
                        /\ Cardinality(Out(qs)) <= n
      OBVIOUS
    <3>1. Out(qs) \in SUBSET P
      OBVIOUS
    <3> HIDE DEF Out, P
    <3> QED BY <2>3, <3>1, FS_Subset, FS_CardinalityType
  <2>6. rank \in [SUBSET P -> 0 .. n + 1]
    <3> SUFFICES ASSUME NEW qs \in SUBSET P
                 PROVE  Cardinality(Out(qs)) + (IF Antichain(qs) THEN 0 ELSE 1) \in 0 .. n + 1
      OBVIOUS
    <3> HIDE DEF Out, n, P
    <3> QED BY <2>3, <2>5
  <2>7. ASSUME NEW qs \in SUBSET P, next[qs] # qs PROVE rank[next[qs]] < rank[qs]
    <3> DEFINE rs == NextRound(qs)
    <3>1. next[qs] = rs /\ rs \in SUBSET P /\ Antichain(rs)
      BY RoundMeans
    <3>2. Out(rs) \subseteq Out(qs)
      <4>1. ASSUME NEW c \in P, NEW p \in qs, Covers(p, c) PROVE c \in Below(w, rs)
        <5>1. PICK q \in rs : Covers(q, p)
          BY RoundMeans
        <5>2. Covers(q, c)
          BY <3>1, <4>1, <5>1, CoversOrder
        <5> QED BY <5>2 DEF Below
      <4> QED BY <4>1 DEF Below
    <3>3. Antichain(qs) => Out(rs) # Out(qs)
      <4> SUFFICES ASSUME Antichain(qs) PROVE Out(rs) # Out(qs)
        OBVIOUS
      <4>1. PICK q \in rs : q \notin Below(w, qs)
        BY <2>7, <3>1, RoundMeans
      <4>2. q \in P /\ q \in Below(w, rs)
        BY <3>1, <4>1, CoversOrder DEF Below
      <4> QED BY <4>1, <4>2
    <3>4. /\ rank[qs] = Cardinality(Out(qs)) + (IF Antichain(qs) THEN 0 ELSE 1)
          /\ rank[rs] = Cardinality(Out(rs))
      <4>1. \A xs \in SUBSET P :
              rank[xs] = Cardinality(Out(xs)) + (IF Antichain(xs) THEN 0 ELSE 1)
        OBVIOUS
      <4> HIDE DEF rank, Out, rs, P
      <4> QED BY <2>5, <3>1, <4>1
    <3>5. Cardinality(Out(rs)) <= Cardinality(Out(qs))
      <4> HIDE DEF Out
      <4> QED BY <2>5, <3>2, FS_Subset
    <3>6. Out(rs) # Out(qs) => Cardinality(Out(rs)) # Cardinality(Out(qs))
      <4> HIDE DEF Out
      <4> QED BY <2>5, <3>2, FS_Subset
    <3> HIDE DEF Out, rank, next, rs
    <3> QED BY <2>5, <3>1, <3>3, <3>4, <3>5, <3>6
  <2>8. n + 1 \in Nat
    BY <2>3
  <2> HIDE DEF rank, Out, n
  <2>9. PICK f \in [SUBSET P -> SUBSET P] : Settles(f, SUBSET P, next)
    <3> HIDE DEF next, P
    <3> QED BY <2>4, <2>6, <2>7, <2>8, SettlingExists
  <2>10. f = Body(f)
    BY <2>9 DEF Settles
  <2>11. settled = Body(settled)
    <3> HIDE DEF Body
    <3> QED BY <2>10
  <2>12. Settles(settled, SUBSET P, next)
    <3> HIDE DEF settled
    <3>1. \A qs \in SUBSET P : Body(settled)[qs] = IF NextRound(qs) = qs THEN qs ELSE settled[NextRound(qs)]
      OBVIOUS
    <3>2. \A qs \in SUBSET P : settled[qs] = IF NextRound(qs) = qs THEN qs ELSE settled[NextRound(qs)]
      <4> HIDE DEF Body
      <4> QED BY <2>11, <3>1
    <3> QED BY <3>2 DEF Settles
  <2> DEFINE G == {qs \in SUBSET P : \A v \in WordsOfWidth(w) : Matched(qs, v) <=> Matched(ps, v)}
  <2>13. RemoveSubsumed(ps) \in G
    <3>1. RemoveSubsumed(ps) \in SUBSET P
      BY SubsumedGone
    <3>2. ASSUME NEW v \in WordsOfWidth(w), NEW p \in ps, MatchesBits(p, v)
          PROVE  Matched(RemoveSubsumed(ps), v)
      <4>1. PICK q \in RemoveSubsumed(ps) : Covers(q, p)
        BY NotSubsumed
      <4>2. MatchesBits(q, v)
        BY <3>1, <3>2, <4>1, CoversMatches
      <4> QED BY <4>2 DEF Matched
    <3>3. \A v : Matched(RemoveSubsumed(ps), v) => Matched(ps, v)
      BY SubsumedGone DEF Matched
    <3> QED BY <3>1, <3>2, <3>3 DEF Matched
  <2>14. ASSUME NEW qs \in G PROVE next[qs] \in G
    <3>1. next[qs] = NextRound(qs) /\ NextRound(qs) \in SUBSET P
      BY RoundMeans
    <3>2. ASSUME NEW v \in WordsOfWidth(w), NEW p \in qs, MatchesBits(p, v)
          PROVE  Matched(NextRound(qs), v)
      <4>1. PICK q \in NextRound(qs) : Covers(q, p)
        BY RoundMeans
      <4>2. MatchesBits(q, v)
        BY <3>1, <3>2, <4>1, CoversMatches
      <4> QED BY <4>2 DEF Matched
    <3>3. \A v \in WordsOfWidth(w) : Matched(NextRound(qs), v) => Matched(qs, v)
      BY RoundMeans DEF Matched
    <3> QED BY <3>1, <3>2, <3>3 DEF Matched
  <2>15. settled[RemoveSubsumed(ps)] \in G
    <3>1. Closed(G, SUBSET P, next)
      BY <2>14 DEF Closed
    <3>2. Descends(SUBSET P, next, rank)
      <4>1. rank \in [SUBSET P -> Nat]
        BY <2>6
      <4> QED BY <2>4, <2>7, <4>1 DEF Descends
    <3> HIDE DEF G, P, next, settled
    <3>3. \A qs \in G : settled[qs] \in G
      BY <2>12, <3>1, <3>2, SettlingKeeps
    <3> QED BY <2>13, <3>3
  <2> QED BY <2>2, <2>15
<1> QED BY <1>1, <1>2

(***************************************************************************)
(* Forms, their fields and the bits of a word.                             *)
(***************************************************************************)

\* The fields of a form and its predicates are sequences.
LEMMA FormShape ==
  ASSUME NEW f \in Forms
  PROVE  /\ FieldsOf(f) \in Seq(Field) /\ FieldsOf(f) # <<>>
         /\ FormOf(f).when \in Seq(Predicate)
         /\ Len(FieldsOf(f)) \in Nat /\ DOMAIN FieldsOf(f) = 1 .. Len(FieldsOf(f))
         /\ Len(FormOf(f).when) \in Nat
         /\ DOMAIN FormOf(f).when = 1 .. Len(FormOf(f).when)
<1> DEFINE F == [fields : Seq(Field) \ {<<>>}, when : Seq(Predicate), excluded : BOOLEAN]
<1>1. PICK n \in DOMAIN Instructions : \E k \in DOMAIN Instructions[n] : f = <<n, k>>
  BY DEF Forms
<1>2. PICK k \in DOMAIN Instructions[n] : f = <<n, k>>
  BY <1>1
<1>3. Instructions[n] \in Seq(F)
  BY InstructionsAssumption
<1>4. FormOf(f) \in F
  <2>1. FormOf(f) = Instructions[n][k]
    BY <1>2 DEF FormOf
  <2> HIDE DEF F
  <2> QED BY <1>2, <1>3, <2>1
<1> QED BY <1>4 DEF FieldsOf

\* Every field has a pattern, and the fields before it some number of bits.
LEMMA FieldShape ==
  ASSUME NEW f \in Forms, NEW i \in DOMAIN FieldsOf(f)
  PROVE  /\ FieldsOf(f)[i] \in Field
         /\ Len(FieldsOf(f)[i].pattern) \in Nat
         /\ FieldsOf(f)[i].pattern \in PatternsOf(Len(FieldsOf(f)[i].pattern))
<1>1. FieldsOf(f)[i] \in Field
  BY FormShape
<1> QED BY <1>1, PatternOfLength DEF Field

\* Each field adds its width to the offset.
LEMMA OffsetSteps ==
  ASSUME NEW f \in Forms
  PROVE  /\ Offset(f, 1) = 0
         /\ \A i \in DOMAIN FieldsOf(f) :
              Offset(f, i + 1) = Offset(f, i) + Len(FieldsOf(f)[i].pattern)
         /\ \A i \in 1 .. Len(FieldsOf(f)) + 1 : Offset(f, i) \in Nat
<1> DEFINE n == Len(FieldsOf(f))
           Size(i) == Len(FieldsOf(f)[i].pattern)
           Body(g) == [i \in 0 .. n |-> IF i = 0 THEN 0 ELSE g[i - 1] + Size(i)]
           before == CHOOSE g : g = Body(g)
           step == [i \in 1 .. n |-> [m \in Nat |-> m + Size(i)]]
<1>1. n \in Nat /\ DOMAIN FieldsOf(f) = 1 .. n
  BY FormShape
<1>2. \A i \in 1 .. n : Size(i) \in Nat
  BY <1>1, FieldShape
<1>3. \E g \in [0 .. n -> Nat] : g = Body(g)
  <2>1. step \in [1 .. n -> [Nat -> Nat]]
    BY <1>2
  <2> HIDE DEF step, n, Size
  <2>2. PICK g \in [0 .. n -> Nat] : Follows(g, n, 0, step)
    BY <1>1, <2>1, RecursionExists
  <2>3. g[0] = 0 /\ \A i \in 1 .. n : g[i] = g[i - 1] + Size(i)
    <3>1. \A i \in 1 .. n : i - 1 \in 0 .. n
      BY <1>1
    <3> QED BY <2>2, <3>1 DEF Follows, step
  <2>4. g = Body(g)
    BY <1>1, <2>3
  <2> QED BY <2>4
<1>4. before = Body(before)
  <2> HIDE DEF Body
  <2> QED BY <1>3
<1>5. before[0] = 0 /\ \A i \in 1 .. n : before[i] = before[i - 1] + Size(i)
  <2> HIDE DEF before, n, Size
  <2>1. \A g : Body(g)[0] = 0 /\ \A i \in 1 .. n : Body(g)[i] = g[i - 1] + Size(i)
    BY <1>1
  <2> HIDE DEF Body
  <2> QED BY <1>4, <2>1
<1>6. Offsets[f] = [i \in 1 .. n + 1 |-> before[i - 1]]
  BY DEF Offsets
<1> HIDE DEF before, n, Size
<1>7. \A i \in 0 .. n : before[i] \in Nat
  <2> DEFINE Good == {i \in 0 .. n : before[i] \in Nat}
  <2>1. 0 \in Good
    BY <1>1, <1>5
  <2>2. ASSUME NEW i \in 0 .. n - 1, i \in Good PROVE i + 1 \in Good
    <3>1. i + 1 \in 1 .. n /\ (i + 1) - 1 = i /\ i + 1 \in 0 .. n
      BY <1>1
    <3>2. before[i + 1] = before[i] + Size(i + 1) /\ Size(i + 1) \in Nat
      BY <1>2, <1>5, <3>1
    <3> QED BY <2>2, <3>1, <3>2
  <2>3. 0 .. n \subseteq Good
    <3> HIDE DEF Good
    <3> QED BY <1>1, <2>1, <2>2, Counting
  <2> QED BY <2>3
<1>8. ASSUME NEW i \in 1 .. n + 1 PROVE Offset(f, i) = before[i - 1] /\ Offset(f, i) \in Nat
  <2>1. i - 1 \in 0 .. n
    BY <1>1
  <2> QED BY <1>6, <1>7, <2>1 DEF Offset
<1>9. ASSUME NEW i \in 1 .. n PROVE Offset(f, i + 1) = Offset(f, i) + Size(i)
  <2>1. i \in 1 .. n + 1 /\ i + 1 \in 1 .. n + 1 /\ (i + 1) - 1 = i
    BY <1>1
  <2> QED BY <1>5, <1>8, <2>1
<1>10. Offset(f, 1) = 0
  BY <1>1, <1>5, <1>8
<1> QED BY <1>1, <1>8, <1>9, <1>10 DEF n, Size

(***************************************************************************)
(* A constraint on the patterns of a field keeps the words that meet it.   *)
(***************************************************************************)

SizeOf(f, i) == Len(FieldsOf(f)[i].pattern)

\* What a predicate of a form asks of the bits of its field i.
FieldMeets(pred, f, i, v) ==
  /\ pred.op # "Never"
  /\ pred.op = "BitEq" /\ pred.index - Offset(f, i) \in 1 .. SizeOf(f, i)
       => v[pred.index - Offset(f, i)] = pred.value
  /\ pred.op = "FieldEq" /\ pred.field = FieldsOf(f)[i].name => MatchesBits(pred.value, v)
  /\ pred.op = "FieldIn" /\ pred.field = FieldsOf(f)[i].name
       => \E q \in pred.values : MatchesBits(q, v)

\* Fixing the variable bits of a pattern keeps the words that also match the value.
LEMMA ConstrainPatternMeans ==
  ASSUME NEW w \in Nat, NEW p \in PatternsOf(w), NEW q \in Seq(Bit)
  PROVE  /\ ConstrainPattern(p, q) \in SUBSET PatternsOf(w)
         /\ \A v \in WordsOfWidth(w) :
              Matched(ConstrainPattern(p, q), v) <=> MatchesBits(p, v) /\ MatchesBits(q, v)
<1> DEFINE Meet == [k \in 1 .. w |-> IF p[k] = "x" THEN q[k] ELSE p[k]]
           Fits == Len(q) = w /\ \A k \in 1 .. w : p[k] = "x" \/ q[k] = "x" \/ p[k] = q[k]
<1>1. DOMAIN p = 1 .. w /\ Len(p) = w /\ Len(q) \in Nat /\ q \in PatternsOf(Len(q))
  BY PatternShape, PatternOfLength
<1>2. ConstrainPattern(p, q) = IF Fits THEN {Meet} ELSE {}
  BY <1>1 DEF ConstrainPattern
<1>3. ASSUME Fits
      PROVE  /\ Meet \in PatternsOf(w)
             /\ \A v \in WordsOfWidth(w) :
                  MatchesBits(Meet, v) <=> MatchesBits(p, v) /\ MatchesBits(q, v)
  <2>1. Len(q) = w /\ q \in PatternsOf(w)
    BY <1>1, <1>3
  <2>2. Meet \in PatternsOf(w)
    BY <2>1 DEF PatternsOf
  <2>3. \A k \in 1 .. w : Meet[k] = IF p[k] = "x" THEN q[k] ELSE p[k]
    OBVIOUS
  <2>4. \A k \in 1 .. w : p[k] = "x" \/ q[k] = "x" \/ p[k] = q[k]
    BY <1>3
  <2> HIDE DEF Meet, Fits
  <2>5. ASSUME NEW v \in WordsOfWidth(w)
        PROVE  MatchesBits(Meet, v) <=> MatchesBits(p, v) /\ MatchesBits(q, v)
    <3>1. /\ MatchesBits(Meet, v) <=> \A k \in 1 .. w : Meet[k] = "x" \/ Meet[k] = v[k]
          /\ MatchesBits(p, v) <=> \A k \in 1 .. w : p[k] = "x" \/ p[k] = v[k]
          /\ MatchesBits(q, v) <=> \A k \in 1 .. w : q[k] = "x" \/ q[k] = v[k]
      BY <2>1, <2>2, MatchesMeans
    <3> QED BY <2>3, <2>4, <3>1
  <2> QED BY <2>2, <2>5
<1>4. ASSUME ~Fits, NEW v \in WordsOfWidth(w), MatchesBits(p, v), MatchesBits(q, v)
      PROVE  FALSE
  <2>1. Len(q) = w /\ q \in PatternsOf(w)
    BY <1>1, <1>4, WordShape DEF MatchesBits
  <2>2. PICK k \in 1 .. w : ~(p[k] = "x" \/ q[k] = "x" \/ p[k] = q[k])
    BY <1>4, <2>1
  <2>3. (p[k] = "x" \/ p[k] = v[k]) /\ (q[k] = "x" \/ q[k] = v[k])
    BY <1>4, <2>1, MatchesMeans
  <2> QED BY <2>2, <2>3
<1> HIDE DEF Meet, Fits
<1> QED BY <1>2, <1>3, <1>4 DEF Matched

\* The patterns that allow b as bit k, with that bit.
WithBit(ps, k, b) == {[p EXCEPT ![k] = b] : p \in {q \in ps : q[k] \in {"x", b}}}

\* Fixing one bit keeps the words with that bit.
LEMMA ConstrainBitMeans ==
  ASSUME NEW w \in Nat, NEW ps \in SUBSET PatternsOf(w), NEW k \in 1 .. w,
         NEW b \in Concrete
  PROVE  /\ WithBit(ps, k, b) \in SUBSET PatternsOf(w)
         /\ \A v \in WordsOfWidth(w) : Matched(WithBit(ps, k, b), v) <=> Matched(ps, v) /\ v[k] = b
<1> DEFINE Set(p) == [p EXCEPT ![k] = b]
           qs == {Set(p) : p \in {q \in ps : q[k] \in {"x", b}}}
<1>1. ASSUME NEW p \in PatternsOf(w), p[k] \in {"x", b}
      PROVE  /\ Set(p) \in PatternsOf(w)
             /\ \A v \in WordsOfWidth(w) :
                  MatchesBits(Set(p), v) <=> MatchesBits(p, v) /\ v[k] = b
  <2>1. Set(p) \in PatternsOf(w)
    BY DEF PatternsOf, Concrete, Bit
  <2>2. Set(p)[k] = b /\ \A j \in (1 .. w) \ {k} : Set(p)[j] = p[j]
    BY DEF PatternsOf
  <2>3. b # "x"
    BY DEF Concrete
  <2> HIDE DEF Set
  <2>4. ASSUME NEW v \in WordsOfWidth(w)
        PROVE  MatchesBits(Set(p), v) <=> MatchesBits(p, v) /\ v[k] = b
    <3>1. /\ MatchesBits(Set(p), v) <=> \A j \in 1 .. w : Set(p)[j] = "x" \/ Set(p)[j] = v[j]
          /\ MatchesBits(p, v) <=> \A j \in 1 .. w : p[j] = "x" \/ p[j] = v[j]
      BY <2>1, MatchesMeans
    <3> QED BY <1>1, <2>2, <2>3, <3>1
  <2> QED BY <2>1, <2>4
<1>2. ASSUME NEW p \in PatternsOf(w), NEW v \in WordsOfWidth(w), MatchesBits(p, v), v[k] = b
      PROVE  p[k] \in {"x", b}
  BY <1>2, MatchesMeans
<1> HIDE DEF Set
<1>3. qs \in SUBSET PatternsOf(w)
  BY <1>1
<1>4. \A v \in WordsOfWidth(w) : Matched(qs, v) <=> Matched(ps, v) /\ v[k] = b
  BY <1>1, <1>2 DEF Matched
<1> QED BY <1>3, <1>4 DEF Set, WithBit

\* One predicate, applied to the patterns of a field, keeps exactly the words of the field
\* that meet it.
LEMMA ApplyConstraintMeans ==
  ASSUME NEW f \in Forms, NEW i \in DOMAIN FieldsOf(f), NEW pred \in Predicate,
         NEW ps \in SUBSET PatternsOf(SizeOf(f, i))
  PROVE  /\ ApplyConstraint(pred, ps, f, i) \in SUBSET PatternsOf(SizeOf(f, i))
         /\ \A v \in WordsOfWidth(SizeOf(f, i)) :
              Matched(ApplyConstraint(pred, ps, f, i), v)
                <=> Matched(ps, v) /\ FieldMeets(pred, f, i, v)
<1> DEFINE w == SizeOf(f, i)
           Result == ApplyConstraint(pred, ps, f, i)
           Goal == /\ Result \in SUBSET PatternsOf(w)
                   /\ \A v \in WordsOfWidth(w) :
                        Matched(Result, v) <=> Matched(ps, v) /\ FieldMeets(pred, f, i, v)
<1>1. w \in Nat
  BY FieldShape DEF SizeOf
<1>2. CASE pred.op = "BitEq"
  <2> DEFINE k == pred.index - Offset(f, i)
  <2>1. Result = IF k \notin 1 .. w THEN ps
                 ELSE {[p EXCEPT ![k] = pred.value] : p \in {q \in ps : q[k] \in {"x", pred.value}}}
    BY <1>2 DEF ApplyConstraint, ConstrainBit, SizeOf
  <2>2. pred.value \in Concrete
    BY <1>2 DEF Predicate
  <2>3. \A v : FieldMeets(pred, f, i, v) <=> (k \in 1 .. w => v[k] = pred.value)
    BY <1>2 DEF FieldMeets
  <2> HIDE DEF k, w, Result
  <2>4. CASE k \in 1 .. w
    <3> DEFINE qs == WithBit(ps, k, pred.value)
    <3>1. ps \in SUBSET PatternsOf(w)
      BY DEF w
    <3>3. Result = qs
      BY <2>1, <2>4 DEF WithBit
    <3>2. /\ qs \in SUBSET PatternsOf(w)
          /\ \A v \in WordsOfWidth(w) : Matched(qs, v) <=> Matched(ps, v) /\ v[k] = pred.value
      <4>1. pred.value \in Concrete /\ k \in 1 .. w
        BY <2>2, <2>4
      <4>2. \A b \in Concrete, j \in 1 .. w :
              /\ WithBit(ps, j, b) \in SUBSET PatternsOf(w)
              /\ \A v \in WordsOfWidth(w) : Matched(WithBit(ps, j, b), v) <=> Matched(ps, v) /\ v[j] = b
        BY ZenonT(40), <1>1, <3>1, ConstrainBitMeans
      <4> QED BY <4>1, <4>2
    <3> HIDE DEF qs
    <3> QED BY <2>3, <2>4, <3>2, <3>3 DEF w, Result
  <2>5. CASE k \notin 1 .. w
    BY <2>1, <2>3, <2>5 DEF w, Result
  <2> QED BY <2>4, <2>5
<1>3. CASE pred.op = "FieldEq" /\ pred.field = FieldsOf(f)[i].name
  <2>1. Result = UNION {ConstrainPattern(p, pred.value) : p \in ps}
    BY <1>3 DEF ApplyConstraint
  <2>2. pred.value \in Seq(Bit)
    BY <1>3 DEF Predicate
  <2>3. \A v : FieldMeets(pred, f, i, v) <=> MatchesBits(pred.value, v)
    BY <1>3 DEF FieldMeets
  <2> HIDE DEF w, Result
  <2>4. \A p \in ps :
          /\ ConstrainPattern(p, pred.value) \in SUBSET PatternsOf(w)
          /\ \A v \in WordsOfWidth(w) :
               Matched(ConstrainPattern(p, pred.value), v)
                 <=> MatchesBits(p, v) /\ MatchesBits(pred.value, v)
    BY <1>1, <2>2, ConstrainPatternMeans DEF w
  <2>5. Result \in SUBSET PatternsOf(w)
    BY <2>1, <2>4
  <2>6. ASSUME NEW v PROVE Matched(Result, v) <=> \E p \in ps : Matched(ConstrainPattern(p, pred.value), v)
    BY <2>1 DEF Matched
  <2>7. \A v \in WordsOfWidth(w) : Matched(Result, v) <=> Matched(ps, v) /\ FieldMeets(pred, f, i, v)
    BY <2>3, <2>4, <2>6 DEF Matched
  <2> QED BY <2>5, <2>7 DEF w, Result
<1>4. CASE pred.op = "FieldIn" /\ pred.field = FieldsOf(f)[i].name
  <2> DEFINE all == UNION {ConstrainPattern(p, q) : p \in ps, q \in pred.values}
  <2>1. Result = MergeOf(all)
    BY <1>4 DEF ApplyConstraint
  <2>2. pred.values \in SUBSET Seq(Bit)
    BY <1>4 DEF Predicate
  <2>3. \A v : FieldMeets(pred, f, i, v) <=> \E q \in pred.values : MatchesBits(q, v)
    BY <1>4 DEF FieldMeets
  <2> HIDE DEF w, Result
  <2>4. \A p \in ps, q \in pred.values :
          /\ ConstrainPattern(p, q) \in SUBSET PatternsOf(w)
          /\ \A v \in WordsOfWidth(w) :
               Matched(ConstrainPattern(p, q), v) <=> MatchesBits(p, v) /\ MatchesBits(q, v)
    BY <1>1, <2>2, ConstrainPatternMeans DEF w
  <2>5. all \in SUBSET PatternsOf(w)
    BY <2>4
  <2>6. ASSUME NEW v
        PROVE  Matched(all, v) <=> \E p \in ps, q \in pred.values : Matched(ConstrainPattern(p, q), v)
    BY DEF Matched
  <2> HIDE DEF all
  <2>7. \A v \in WordsOfWidth(w) : Matched(all, v) <=> Matched(ps, v) /\ FieldMeets(pred, f, i, v)
    BY <2>3, <2>4, <2>6 DEF Matched
  <2>8. /\ MergeOf(all) \in SUBSET PatternsOf(w)
        /\ \A v \in WordsOfWidth(w) : Matched(MergeOf(all), v) <=> Matched(all, v)
    BY <1>1, <2>5, MergeOfMeans
  <2> QED BY <2>1, <2>7, <2>8 DEF w, Result
<1>5. CASE pred.op = "Never"
  <2>1. Result = {}
    BY <1>5 DEF ApplyConstraint
  <2> QED BY <1>5, <2>1 DEF Matched, FieldMeets
<1>6. CASE pred.op \in {"FieldEq", "FieldIn"} /\ pred.field # FieldsOf(f)[i].name
  <2>1. Result = ps
    BY <1>6 DEF ApplyConstraint
  <2>2. \A v : FieldMeets(pred, f, i, v)
    BY <1>6 DEF FieldMeets
  <2> HIDE DEF Result
  <2> QED BY <2>1, <2>2 DEF w, Result
<1>7. pred.op \in {"Never", "BitEq", "FieldEq", "FieldIn"}
  BY DEF Predicate
<1> HIDE DEF Goal
<1>8. Goal
  BY <1>2, <1>3, <1>4, <1>5, <1>6, <1>7 DEF Goal
<1> QED BY <1>8 DEF Goal

\* The patterns that come of one: they match what it does and every predicate lets pass.
LEMMA ConstrainedMeans ==
  ASSUME NEW f \in Forms, NEW i \in DOMAIN FieldsOf(f),
         NEW p \in PatternsOf(SizeOf(f, i))
  PROVE  /\ Constrained(f, i, p) \in SUBSET PatternsOf(SizeOf(f, i))
         /\ \A v \in WordsOfWidth(SizeOf(f, i)) :
              Matched(Constrained(f, i, p), v)
                <=> /\ MatchesBits(p, v)
                    /\ \A k \in DOMAIN FormOf(f).when : FieldMeets(FormOf(f).when[k], f, i, v)
<1> DEFINE m == Len(FormOf(f).when)
           S == SUBSET PatternsOf(SizeOf(f, i))
           Apply(k, qs) == ApplyConstraint(FormOf(f).when[k], qs, f, i)
           Meets(k, v) == FieldMeets(FormOf(f).when[k], f, i, v)
           Body(g) == [k \in 0 .. m |-> IF k = 0 THEN {p} ELSE Apply(k, g[k - 1])]
           after == CHOOSE g : g = Body(g)
           step == [k \in 1 .. m |-> [qs \in S |-> Apply(k, qs)]]
<1>1. m \in Nat /\ DOMAIN FormOf(f).when = 1 .. m /\ \A k \in 1 .. m : FormOf(f).when[k] \in Predicate
  BY FormShape
<1>2. \A k \in 1 .. m : \A qs \in S :
        /\ Apply(k, qs) \in S
        /\ \A v \in WordsOfWidth(SizeOf(f, i)) :
             Matched(Apply(k, qs), v) <=> Matched(qs, v) /\ Meets(k, v)
  BY <1>1, ApplyConstraintMeans
<1>3. {p} \in S
  OBVIOUS
<1>4. Constrained(f, i, p) = after[m]
  BY DEF Constrained
<1> HIDE DEF S, m, Apply, Meets
<1>5. \E g \in [0 .. m -> S] : g = Body(g)
  <2>1. step \in [1 .. m -> [S -> S]]
    BY <1>2
  <2> HIDE DEF step
  <2>2. PICK g \in [0 .. m -> S] : Follows(g, m, {p}, step)
    BY <1>1, <1>3, <2>1, RecursionExists
  <2>3. g[0] = {p} /\ \A k \in 1 .. m : g[k] = Apply(k, g[k - 1])
    <3>1. \A k \in 1 .. m : k - 1 \in 0 .. m
      BY <1>1
    <3> QED BY <2>2, <3>1 DEF Follows, step
  <2>4. g = Body(g)
    BY <1>1, <2>3
  <2> QED BY <2>4
<1>6. after = Body(after)
  <2> HIDE DEF Body
  <2> QED BY <1>5
<1>7. after[0] = {p} /\ \A k \in 1 .. m : after[k] = Apply(k, after[k - 1])
  <2> HIDE DEF after
  <2>1. \A g : Body(g)[0] = {p} /\ \A k \in 1 .. m : Body(g)[k] = Apply(k, g[k - 1])
    BY <1>1
  <2> HIDE DEF Body
  <2> QED BY <1>6, <2>1
<1> HIDE DEF after
<1> DEFINE Good == {k \in 0 .. m :
             /\ after[k] \in S
             /\ \A v \in WordsOfWidth(SizeOf(f, i)) :
                  Matched(after[k], v) <=> MatchesBits(p, v) /\ \A j \in 1 .. k : Meets(j, v)}
<1>8. 0 \in Good
  <2>1. \A v : Matched(after[0], v) <=> MatchesBits(p, v)
    BY <1>7 DEF Matched
  <2>2. 0 \in 0 .. m /\ after[0] \in S /\ 1 .. 0 = {}
    BY <1>1, <1>3, <1>7
  <2> QED BY <2>1, <2>2
<1>9. ASSUME NEW k \in 0 .. m - 1, k \in Good PROVE k + 1 \in Good
  <2>1. k + 1 \in 1 .. m /\ (k + 1) - 1 = k /\ k + 1 \in 0 .. m /\ 1 .. k + 1 = (1 .. k) \cup {k + 1}
    BY <1>1
  <2>2. after[k + 1] = Apply(k + 1, after[k])
    BY <1>7, <2>1
  <2>3. /\ after[k + 1] \in S
        /\ \A v \in WordsOfWidth(SizeOf(f, i)) :
             Matched(after[k + 1], v) <=> Matched(after[k], v) /\ Meets(k + 1, v)
    BY <1>2, <1>9, <2>1, <2>2
  <2> QED BY <1>9, <2>1, <2>3
<1>10. m \in Good
  <2> HIDE DEF Good
  <2>1. 0 .. m \subseteq Good
    BY <1>1, <1>8, <1>9, Counting
  <2> QED BY <1>1, <2>1
<1> QED BY <1>1, <1>4, <1>10 DEF S, Meets

\* The patterns a candidate has for the fields.
UsesFit(u) ==
  /\ DOMAIN u = Names
  /\ \A name \in Names : u[name] \subseteq PatternsOf(Len(FieldNamed(name).pattern))

\* A named field is of the width of the field that FieldNamed chooses.
LEMMA FieldOfName ==
  ASSUME NEW f \in Forms, NEW i \in DOMAIN FieldsOf(f), FieldsOf(f)[i].name # ""
  PROVE  /\ FieldsOf(f)[i].name \in Names
         /\ FieldNamed(FieldsOf(f)[i].name).uses = FieldsOf(f)[i].uses
         /\ Len(FieldNamed(FieldsOf(f)[i].name).pattern) = SizeOf(f, i)
         /\ \A k \in 1 .. SizeOf(f, i) : FieldsOf(f)[i].pattern[k] = "x"
<1> DEFINE g == FieldsOf(f)[i]
<1>1. g \in Named
  <2>1. g \in ToSet(FieldsOf(f))
    BY DEF ToSet
  <2>2. g \in AllFields
    BY <2>1 DEF AllFields
  <2> QED BY <2>2 DEF Named
<1>2. FieldNamed(g.name) \in Named /\ FieldNamed(g.name).name = g.name
  BY <1>1 DEF FieldNamed
<1>3. DOMAIN g.pattern = 1 .. SizeOf(f, i)
  BY FieldShape, PatternShape DEF SizeOf
<1> QED BY <1>1, <1>2, <1>3, FieldsAssumption DEF Names, SizeOf

\* The field that FieldNamed chooses for a name has the name.
LEMMA NamesFit ==
  ASSUME NEW name \in Names
  PROVE  /\ FieldNamed(name) \in Named /\ FieldNamed(name).name = name
         /\ Len(FieldNamed(name).pattern) \in Nat
         /\ FieldNamed(name).pattern \in PatternsOf(Len(FieldNamed(name).pattern))
<1>1. FieldNamed(name) \in Named /\ FieldNamed(name).name = name
  BY DEF Names, FieldNamed
<1>2. PICK f \in Forms : \E i \in DOMAIN FieldsOf(f) : FieldNamed(name) = FieldsOf(f)[i]
  BY <1>1 DEF Named, AllFields, ToSet
<1> QED BY <1>1, <1>2, FieldShape

\* So the patterns a field starts from are patterns of its width.
LEMMA UsesOfFit ==
  ASSUME NEW u, UsesFit(u), NEW f \in Forms, NEW i \in DOMAIN FieldsOf(f)
  PROVE  UsesOf(f, i, u) \in SUBSET PatternsOf(SizeOf(f, i))
<1>1. CASE FieldsOf(f)[i].name = ""
  BY <1>1, FieldShape DEF UsesOf, SizeOf
<1>2. CASE FieldsOf(f)[i].name # ""
  BY <1>2, FieldOfName DEF UsesOf, UsesFit
<1> QED BY <1>1, <1>2

\* The encodings of a field match the words that its uses allow and its predicates accept.
LEMMA FieldEncodingsMean ==
  ASSUME NEW u, UsesFit(u), NEW f \in Forms, NEW i \in DOMAIN FieldsOf(f)
  PROVE  /\ FieldEncodingsOf(f, i, u) \in SUBSET PatternsOf(SizeOf(f, i))
         /\ \A v \in WordsOfWidth(SizeOf(f, i)) :
              Matched(FieldEncodingsOf(f, i, u), v)
                <=> /\ Matched(UsesOf(f, i, u), v)
                    /\ \A k \in DOMAIN FormOf(f).when : FieldMeets(FormOf(f).when[k], f, i, v)
<1>1. UsesOf(f, i, u) \in SUBSET PatternsOf(SizeOf(f, i))
  BY UsesOfFit
<1>2. \A v : Matched(FieldEncodingsOf(f, i, u), v)
               <=> \E p \in UsesOf(f, i, u) : Matched(Constrained(f, i, p), v)
  BY DEF Matched, FieldEncodingsOf
<1>3. FieldEncodingsOf(f, i, u) \in SUBSET PatternsOf(SizeOf(f, i))
  BY <1>1, ConstrainedMeans DEF FieldEncodingsOf
<1> QED BY <1>1, <1>2, <1>3, ConstrainedMeans DEF Matched

(***************************************************************************)
(* A word and the bits of its fields.                                      *)
(***************************************************************************)

\* Fields follow one another.
LEMMA OffsetsRise ==
  ASSUME NEW f \in Forms
  PROVE  /\ \A i \in 1 .. Len(FieldsOf(f)) + 1, j \in 1 .. Len(FieldsOf(f)) + 1 :
              i <= j => Offset(f, i) <= Offset(f, j)
         /\ WidthOf(f) \in Nat
<1> DEFINE n == Len(FieldsOf(f))
           Rising == {j \in 0 .. n : \A i \in 1 .. j + 1 : Offset(f, i) <= Offset(f, j + 1)}
<1>1. n \in Nat /\ DOMAIN FieldsOf(f) = 1 .. n
  BY FormShape
<1>2. \A i \in 1 .. n + 1 : Offset(f, i) \in Nat
  BY OffsetSteps
<1>3. \A i \in 1 .. n : Offset(f, i) <= Offset(f, i + 1)
  <2> SUFFICES ASSUME NEW i \in 1 .. n PROVE Offset(f, i) <= Offset(f, i + 1)
    OBVIOUS
  <2>1. Offset(f, i + 1) = Offset(f, i) + Len(FieldsOf(f)[i].pattern)
    BY <1>1, OffsetSteps
  <2>2. Len(FieldsOf(f)[i].pattern) \in Nat /\ Offset(f, i) \in Nat
    BY <1>1, <1>2, FieldShape
  <2> QED BY <2>1, <2>2
<1> HIDE DEF n
<1>4. 0 \in Rising
  BY <1>1, <1>2
<1>5. ASSUME NEW j \in 0 .. n - 1, j \in Rising PROVE j + 1 \in Rising
  <2>1. j + 1 \in 0 .. n /\ j + 1 \in 1 .. n /\ (j + 1) + 1 \in 1 .. n + 1
    BY <1>1
  <2>2. ASSUME NEW i \in 1 .. (j + 1) + 1 PROVE Offset(f, i) <= Offset(f, (j + 1) + 1)
    <3>1. i \in 1 .. n + 1 /\ (i = (j + 1) + 1 \/ i \in 1 .. j + 1)
      BY <1>1
    <3>2. Offset(f, i) \in Nat /\ Offset(f, j + 1) \in Nat /\ Offset(f, (j + 1) + 1) \in Nat
      BY <1>1, <1>2, <2>1, <3>1
    <3>3. Offset(f, j + 1) <= Offset(f, (j + 1) + 1)
      BY <1>3, <2>1
    <3> QED BY <1>5, <3>1, <3>2, <3>3
  <2> QED BY <2>1, <2>2
<1>6. 0 .. n \subseteq Rising
  <2> HIDE DEF Rising
  <2> QED BY <1>1, <1>4, <1>5, Counting
<1>7. ASSUME NEW i \in 1 .. n + 1, NEW j \in 1 .. n + 1, i <= j PROVE Offset(f, i) <= Offset(f, j)
  <2>1. j - 1 \in 0 .. n /\ (j - 1) + 1 = j /\ i \in 1 .. (j - 1) + 1
    BY <1>1, <1>7
  <2>2. j - 1 \in Rising
    BY <1>6, <2>1
  <2> QED BY <2>1, <2>2
<1>8. WidthOf(f) \in Nat
  BY <1>1, <1>2 DEF WidthOf, n
<1> QED BY <1>7, <1>8 DEF n

\* The bits before field m.
Prefix(w, m) == [k \in 1 .. m |-> w[k]]

\* The bits of field i, in a word that has them.
LEMMA FieldBitsAre ==
  ASSUME NEW f \in Forms, NEW i \in DOMAIN FieldsOf(f), NEW m \in Nat,
         Offset(f, i + 1) <= m, NEW w \in WordsOfWidth(m)
  PROVE  /\ FieldBits(f, w, i) \in WordsOfWidth(SizeOf(f, i))
         /\ \A k \in 1 .. SizeOf(f, i) :
              /\ Offset(f, i) + k \in 1 .. m
              /\ FieldBits(f, w, i)[k] = w[Offset(f, i) + k]
<1> DEFINE a == Offset(f, i)
           size == SizeOf(f, i)
<1>1. size \in Nat /\ a \in Nat /\ Offset(f, i + 1) = a + size
  BY OffsetSteps, FieldShape, FormShape DEF SizeOf
<1>2. FieldBits(f, w, i) = [k \in 1 .. size |-> w[a + k]]
  <2>1. FieldBits(f, w, i) = SubSeq(w, a + 1, a + size)
    BY <1>1 DEF FieldBits
  <2> HIDE DEF a, size
  <2>2. SubSeq(w, a + 1, a + size) = [k \in 1 .. size |-> w[a + k]]
    <3>1. w \in Seq(Concrete)
      BY WordShape
    <3>2. SubSeq(w, a + 1, a + size) = [k \in 1 .. (a + size) - (a + 1) + 1 |-> w[k + (a + 1) - 1]]
      BY <1>1, <3>1
    <3>3. (a + size) - (a + 1) + 1 = size
      BY <1>1
    <3>4. \A k \in 1 .. size : k + (a + 1) - 1 = a + k
      BY <1>1
    <3> QED BY <3>2, <3>3, <3>4
  <2> QED BY <2>1, <2>2
<1>3. \A k \in 1 .. size : a + k \in 1 .. m
  <2> HIDE DEF a, size
  <2> QED BY <1>1
<1> HIDE DEF a, size
<1>4. \A k \in 1 .. size : w[a + k] \in Concrete
  BY <1>3 DEF WordsOfWidth
<1>5. [k \in 1 .. size |-> w[a + k]] \in WordsOfWidth(size)
  BY <1>4 DEF WordsOfWidth
<1> QED BY <1>2, <1>3, <1>5 DEF a, size

\* Each field lies inside the word.
LEMMA FieldsWithin ==
  ASSUME NEW f \in Forms, NEW i \in DOMAIN FieldsOf(f)
  PROVE  /\ i \in Nat /\ i + 1 \in 1 .. Len(FieldsOf(f)) + 1
         /\ Offset(f, i) \in Nat /\ Offset(f, i + 1) \in Nat
         /\ Offset(f, i + 1) = Offset(f, i) + SizeOf(f, i) /\ SizeOf(f, i) \in Nat
         /\ Offset(f, i + 1) <= WidthOf(f)
<1>1. Len(FieldsOf(f)) \in Nat /\ i \in 1 .. Len(FieldsOf(f))
  BY FormShape
<1>2. i + 1 \in 1 .. Len(FieldsOf(f)) + 1 /\ Len(FieldsOf(f)) + 1 \in 1 .. Len(FieldsOf(f)) + 1
  BY <1>1
<1>3. Offset(f, i + 1) <= WidthOf(f)
  BY <1>1, <1>2, OffsetsRise DEF WidthOf
<1> QED BY <1>1, <1>2, <1>3, OffsetSteps, FieldShape DEF SizeOf

\* Every bit of a form is in a field.
LEMMA BitInField ==
  ASSUME NEW f \in Forms, NEW k \in 1 .. WidthOf(f)
  PROVE  \E i \in DOMAIN FieldsOf(f) : k - Offset(f, i) \in 1 .. SizeOf(f, i)
<1> DEFINE n == Len(FieldsOf(f))
           Found == {j \in 0 .. n : k <= Offset(f, j + 1) =>
                       \E i \in DOMAIN FieldsOf(f) : k - Offset(f, i) \in 1 .. SizeOf(f, i)}
<1>1. n \in Nat /\ DOMAIN FieldsOf(f) = 1 .. n
  BY FormShape
<1>2. k \in Nat /\ k >= 1 /\ WidthOf(f) \in Nat /\ k <= WidthOf(f)
  BY OffsetsRise
<1>3. 0 \in Found
  BY <1>1, <1>2, OffsetSteps
<1>4. ASSUME NEW j \in 0 .. n - 1, j \in Found PROVE j + 1 \in Found
  <2>1. j + 1 \in DOMAIN FieldsOf(f) /\ j + 1 \in 0 .. n
    BY <1>1
  <2>2. /\ Offset(f, j + 1) \in Nat /\ SizeOf(f, j + 1) \in Nat
        /\ Offset(f, (j + 1) + 1) = Offset(f, j + 1) + SizeOf(f, j + 1)
    BY <2>1, FieldsWithin
  <2>3. ASSUME k <= Offset(f, (j + 1) + 1), ~(k <= Offset(f, j + 1))
        PROVE  k - Offset(f, j + 1) \in 1 .. SizeOf(f, j + 1)
    <3> DEFINE a == Offset(f, j + 1)
               b == SizeOf(f, j + 1)
    <3>1. a \in Nat /\ b \in Nat /\ k <= a + b /\ ~(k <= a)
      BY <2>2, <2>3
    <3> HIDE DEF a, b
    <3>2. k - a \in 1 .. b
      BY <1>2, <3>1
    <3> QED BY <3>2 DEF a, b
  <2> QED BY <1>4, <2>1, <2>3
<1>5. n \in Found
  <2> HIDE DEF Found
  <2>1. 0 .. n \subseteq Found
    BY <1>1, <1>3, <1>4, Counting
  <2> QED BY <1>1, <2>1
<1> QED BY <1>2, <1>5 DEF WidthOf

\* A word is matched by two patterns, one after the other, as its two parts are.
LEMMA TwoParts ==
  ASSUME NEW a \in Nat, NEW b \in Nat, NEW e \in PatternsOf(a), NEW p \in PatternsOf(b)
  PROVE  /\ e \o p \in PatternsOf(a + b)
         /\ \A w \in WordsOfWidth(a + b), v \in WordsOfWidth(b) :
              (\A k \in 1 .. b : v[k] = w[a + k]) =>
                (MatchesBits(e \o p, w) <=> MatchesBits(e, Prefix(w, a)) /\ MatchesBits(p, v))
<1>1. Len(e) = a /\ Len(p) = b /\ e \in Seq(Bit) /\ p \in Seq(Bit)
  BY PatternShape
<1> DEFINE c == e \o p
<1>2. c \in PatternsOf(a + b) /\ \A k \in 1 .. a + b : c[k] = IF k <= a THEN e[k] ELSE p[k - a]
  <2>1. c \in Seq(Bit) /\ Len(c) = a + b
    BY <1>1, ConcatProperties
  <2>2. \A k \in 1 .. a + b : c[k] = IF k <= a THEN e[k] ELSE p[k - a]
    BY ZenonT(40), <1>1, ConcatProperties
  <2> HIDE DEF c
  <2>3. c \in PatternsOf(a + b)
    BY <2>1, PatternOfLength
  <2> QED BY <2>2, <2>3
<1> HIDE DEF c
<1>3. \A k \in 1 .. a + b : (k <= a => k \in 1 .. a) /\ (~(k <= a) => k - a \in 1 .. b)
  OBVIOUS
<1>4. \A k \in 1 .. b : a + k \in 1 .. a + b /\ ~(a + k <= a) /\ (a + k) - a = k
  OBVIOUS
<1>5. \A k \in 1 .. a : k \in 1 .. a + b /\ k <= a
  OBVIOUS
<1>7. ASSUME NEW w \in WordsOfWidth(a + b), NEW v \in WordsOfWidth(b),
             \A k \in 1 .. b : v[k] = w[a + k]
      PROVE  MatchesBits(c, w) <=> MatchesBits(e, Prefix(w, a)) /\ MatchesBits(p, v)
  <2>1. Prefix(w, a) \in WordsOfWidth(a)
    BY <1>5 DEF Prefix, WordsOfWidth
  <2>2. \A k \in 1 .. a : Prefix(w, a)[k] = w[k]
    BY DEF Prefix
  <2>3. MatchesBits(e, Prefix(w, a)) <=> \A k \in 1 .. a : e[k] = "x" \/ e[k] = w[k]
    BY <2>1, <2>2, MatchesMeans
  <2>4. MatchesBits(p, v) <=> \A k \in 1 .. b : p[k] = "x" \/ p[k] = w[a + k]
    BY <1>7, MatchesMeans
  <2>5. \A k \in 1 .. a : c[k] = e[k]
    BY <1>2, <1>5
  <2>6. \A k \in 1 .. b : c[a + k] = p[k]
    BY <1>2, <1>4
  <2>7. MatchesBits(c, w) <=> \A k \in 1 .. a + b : c[k] = "x" \/ c[k] = w[k]
    BY <1>2, MatchesMeans
  <2>8. \A k \in 1 .. a + b : k \in 1 .. a \/ \E j \in 1 .. b : k = a + j
    <3> SUFFICES ASSUME NEW k \in 1 .. a + b, k \notin 1 .. a PROVE \E j \in 1 .. b : k = a + j
      OBVIOUS
    <3>1. k - a \in 1 .. b /\ k = a + (k - a)
      OBVIOUS
    <3> QED BY <3>1
  <2>9. MatchesBits(c, w) <=> /\ \A k \in 1 .. a : c[k] = "x" \/ c[k] = w[k]
                              /\ \A k \in 1 .. b : c[a + k] = "x" \/ c[a + k] = w[a + k]
    BY <1>4, <1>5, <2>7, <2>8
  <2> QED BY <2>3, <2>4, <2>5, <2>6, <2>9
<1> QED BY <1>2, <1>7 DEF c

\* The encodings of a form match a word when those of every field match its bits.
LEMMA EncodingsMean ==
  ASSUME NEW u, UsesFit(u), NEW f \in Forms
  PROVE  /\ Encodings(f, u) \in SUBSET PatternsOf(WidthOf(f))
         /\ \A w \in WordsOf[f] :
              Matched(Encodings(f, u), w)
                <=> \A i \in DOMAIN FieldsOf(f) :
                      Matched(FieldEncodingsOf(f, i, u), FieldBits(f, w, i))
<1> DEFINE n == Len(FieldsOf(f))
           S == SUBSET Seq(Bit)
           Of(i) == FieldEncodingsOf(f, i, u)
           Longer(i, es) == {e \o p : e \in es, p \in Of(i)}
           Body(g) == [i \in 0 .. n |-> IF i = 0 THEN {<<>>} ELSE Longer(i, g[i - 1])]
           upTo == CHOOSE g : g = Body(g)
           step == [i \in 1 .. n |-> [es \in S |-> Longer(i, es)]]
<1>1. n \in Nat /\ DOMAIN FieldsOf(f) = 1 .. n
  BY FormShape
<1>2. \A i \in 1 .. n :
        /\ Of(i) \in SUBSET PatternsOf(SizeOf(f, i))
        /\ SizeOf(f, i) \in Nat /\ Offset(f, i) \in Nat
        /\ Offset(f, i + 1) = Offset(f, i) + SizeOf(f, i) /\ Offset(f, i + 1) <= WidthOf(f)
  BY <1>1, FieldEncodingsMean, FieldsWithin
<1>3. Encodings(f, u) = upTo[n]
  BY DEF Encodings
<1> HIDE DEF n, Of
<1>4. \A i \in 1 .. n : \A es \in S : Longer(i, es) \in S
  <2> HIDE DEF Longer
  <2> SUFFICES ASSUME NEW i \in 1 .. n, NEW es \in S, NEW c \in Longer(i, es)
               PROVE  c \in Seq(Bit)
    OBVIOUS
  <2>1. PICK e \in es, p \in Of(i) : c = e \o p
    BY DEF Longer
  <2>2. e \in Seq(Bit) /\ p \in Seq(Bit)
    BY <1>2, PatternShape
  <2> QED BY <2>1, <2>2
<1>5. {<<>>} \in S
  OBVIOUS
<1> HIDE DEF S, Longer
<1>6. \E g \in [0 .. n -> S] : g = Body(g)
  <2>1. step \in [1 .. n -> [S -> S]]
    BY <1>4
  <2> HIDE DEF step
  <2>2. PICK g \in [0 .. n -> S] : Follows(g, n, {<<>>}, step)
    BY <1>1, <1>5, <2>1, RecursionExists
  <2>3. g[0] = {<<>>} /\ \A i \in 1 .. n : g[i] = Longer(i, g[i - 1])
    <3>1. \A i \in 1 .. n : i - 1 \in 0 .. n
      BY <1>1
    <3> QED BY <2>2, <3>1 DEF Follows, step
  <2>4. g = Body(g)
    BY <1>1, <2>3
  <2> QED BY <2>4
<1>7. upTo = Body(upTo)
  <2> HIDE DEF Body
  <2> QED BY <1>6
<1>8. upTo[0] = {<<>>} /\ \A i \in 1 .. n : upTo[i] = Longer(i, upTo[i - 1])
  <2> HIDE DEF upTo
  <2>1. \A g : Body(g)[0] = {<<>>} /\ \A i \in 1 .. n : Body(g)[i] = Longer(i, g[i - 1])
    BY <1>1
  <2> HIDE DEF Body
  <2> QED BY <1>7, <2>1
<1> HIDE DEF upTo
<1>9. WordsOf[f] = WordsOfWidth(WidthOf(f)) /\ WidthOf(f) \in Nat
  BY OffsetsRise DEF WordsOf, WordsOfWidth
<1> DEFINE Fits(i, w) == Matched(Of(i), FieldBits(f, w, i))
           Good == {j \in 0 .. n :
             /\ upTo[j] \in SUBSET PatternsOf(Offset(f, j + 1))
             /\ \A w \in WordsOf[f] :
                  Matched(upTo[j], Prefix(w, Offset(f, j + 1))) <=> \A i \in 1 .. j : Fits(i, w)}
<1>10. 0 \in Good
  <2>1. Offset(f, 0 + 1) = 0
    BY OffsetSteps
  <2>2. <<>> \in PatternsOf(0)
    BY DEF PatternsOf
  <2>3. \A w : MatchesBits(<<>>, Prefix(w, 0))
    BY DEF MatchesBits, Prefix
  <2>4. \A w : Matched(upTo[0], Prefix(w, 0))
    BY <1>8, <2>3 DEF Matched
  <2>5. 1 .. 0 = {} /\ 0 \in 0 .. n
    BY <1>1
  <2> HIDE DEF Fits
  <2> QED BY <1>8, <2>1, <2>2, <2>4, <2>5
<1>11. ASSUME NEW j \in 0 .. n - 1, j \in Good PROVE j + 1 \in Good
  <2> DEFINE a == Offset(f, j + 1)
             b == SizeOf(f, j + 1)
  <2>1. j + 1 \in 1 .. n /\ (j + 1) - 1 = j /\ j + 1 \in 0 .. n /\ 1 .. j + 1 = (1 .. j) \cup {j + 1}
    BY <1>1
  <2>2. upTo[j + 1] = Longer(j + 1, upTo[j])
    BY <1>8, <2>1
  <2>3. a \in Nat /\ b \in Nat /\ Offset(f, (j + 1) + 1) = a + b /\ a + b <= WidthOf(f)
    BY <1>2, <2>1
  <2>4. upTo[j] \in SUBSET PatternsOf(a) /\ Of(j + 1) \in SUBSET PatternsOf(b)
    BY <1>2, <1>11, <2>1
  <2> HIDE DEF a, b
  <2>5. Longer(j + 1, upTo[j]) \in SUBSET PatternsOf(a + b)
    <3> SUFFICES ASSUME NEW c \in Longer(j + 1, upTo[j]) PROVE c \in PatternsOf(a + b)
      OBVIOUS
    <3>1. PICK e \in upTo[j], p \in Of(j + 1) : c = e \o p
      BY SMTT(40) DEF Longer
    <3>2. e \in PatternsOf(a) /\ p \in PatternsOf(b)
      BY <2>4
    <3> QED BY <2>3, <3>1, <3>2, TwoParts
  <2>6. ASSUME NEW w \in WordsOf[f]
        PROVE  Matched(Longer(j + 1, upTo[j]), Prefix(w, a + b))
                 <=> Matched(upTo[j], Prefix(w, a)) /\ Fits(j + 1, w)
    <3> DEFINE x == Prefix(w, a + b)
               v == FieldBits(f, w, j + 1)
    <3>1. /\ v \in WordsOfWidth(b)
          /\ \A k \in 1 .. b : v[k] = w[a + k]
      <4>1. /\ f \in Forms /\ j + 1 \in DOMAIN FieldsOf(f) /\ WidthOf(f) \in Nat
            /\ Offset(f, (j + 1) + 1) <= WidthOf(f) /\ w \in WordsOfWidth(WidthOf(f))
        BY <1>1, <1>9, <2>1, <2>3
      <4>2. /\ FieldBits(f, w, j + 1) \in WordsOfWidth(SizeOf(f, j + 1))
            /\ \A k \in 1 .. SizeOf(f, j + 1) : FieldBits(f, w, j + 1)[k] = w[Offset(f, j + 1) + k]
        BY ONLY <4>1, FieldBitsAre
      <4> QED BY ONLY <4>2 DEF a, b, v
    <3>2. x \in WordsOfWidth(a + b) /\ \A k \in 1 .. a + b : x[k] = w[k]
      <4>1. \A k \in 1 .. a + b : k \in 1 .. WidthOf(f)
        BY <1>9, <2>3
      <4> QED BY <1>9, <4>1 DEF Prefix, WordsOfWidth
    <3>3. Prefix(x, a) = Prefix(w, a)
      <4>1. \A k \in 1 .. a : x[k] = w[k]
        BY <2>3, <3>2
      <4> QED BY <4>1 DEF Prefix
    <3>4. \A k \in 1 .. b : v[k] = x[a + k]
      BY <2>3, <3>1, <3>2
    <3> HIDE DEF x, v
    <3>5. \A e \in upTo[j], p \in Of(j + 1) :
            MatchesBits(e \o p, x) <=> MatchesBits(e, Prefix(w, a)) /\ MatchesBits(p, v)
      BY SMTT(40), <2>3, <2>4, <3>1, <3>2, <3>3, <3>4, TwoParts
    <3>6. Matched(Longer(j + 1, upTo[j]), x) <=> \E e \in upTo[j], p \in Of(j + 1) : MatchesBits(e \o p, x)
      <4>1. ASSUME NEW c \in Longer(j + 1, upTo[j])
            PROVE  \E e \in upTo[j], p \in Of(j + 1) : c = e \o p
        BY DEF Longer
      <4>2. ASSUME NEW e \in upTo[j], NEW p \in Of(j + 1) PROVE e \o p \in Longer(j + 1, upTo[j])
        BY SMTT(40) DEF Longer
      <4> QED BY ZenonT(40), <4>1, <4>2 DEF Matched
    <3>7. Matched(Longer(j + 1, upTo[j]), x) <=> Matched(upTo[j], Prefix(w, a)) /\ Matched(Of(j + 1), v)
      BY <3>5, <3>6 DEF Matched
    <3> QED BY <3>7 DEF x, v
  <2>7. \A w \in WordsOf[f] : Matched(upTo[j], Prefix(w, a)) <=> \A i \in 1 .. j : Fits(i, w)
    BY <1>11 DEF a
  <2> HIDE DEF Fits
  <2>8. \A w \in WordsOf[f] :
          Matched(upTo[j + 1], Prefix(w, a + b)) <=> \A i \in 1 .. j + 1 : Fits(i, w)
    BY <2>1, <2>2, <2>6, <2>7
  <2> QED BY <2>1, <2>2, <2>3, <2>5, <2>8
<1>12. n \in Good
  <2> HIDE DEF Good
  <2>1. 0 .. n \subseteq Good
    BY <1>1, <1>10, <1>11, Counting
  <2> QED BY <1>1, <2>1
<1>13. Offset(f, n + 1) = WidthOf(f)
  BY DEF WidthOf, n
<1>14. \A w \in WordsOf[f] : Prefix(w, WidthOf(f)) = w
  BY <1>9 DEF Prefix, WordsOfWidth
<1> QED BY <1>1, <1>3, <1>12, <1>13, <1>14 DEF Of

(***************************************************************************)
(* Legality, word by word and by patterns.                                 *)
(***************************************************************************)

\* A check of a whole word is what it asks of each field.
LEMMA CheckMeans ==
  ASSUME NEW f \in Forms, NEW w \in WordsOf[f], NEW k \in DOMAIN FormOf(f).when,
         FormOf(f).when[k].op = "FieldEq" => "x" \notin ToSet(FormOf(f).when[k].value)
  PROVE  Check(FormOf(f).when[k], f, w)
           <=> \A i \in DOMAIN FieldsOf(f) :
                 FieldMeets(FormOf(f).when[k], f, i, FieldBits(f, w, i))
<1> DEFINE pred == FormOf(f).when[k]
           Goal == Check(pred, f, w)
                     <=> \A i \in DOMAIN FieldsOf(f) : FieldMeets(pred, f, i, FieldBits(f, w, i))
<1>1. pred \in Predicate /\ pred.op \in {"Never", "BitEq", "FieldEq", "FieldIn"}
  BY FormShape DEF Predicate
<1>2. /\ pred.op = "BitEq" => pred.index \in 1 .. WidthOf(f)
      /\ pred.op \in {"FieldEq", "FieldIn"} =>
           \E i \in DOMAIN FieldsOf(f) : \A j \in DOMAIN FieldsOf(f) :
             FieldsOf(f)[j].name = pred.field <=> j = i
  BY PredicatesAssumption
<1>3. WidthOf(f) \in Nat /\ w \in WordsOfWidth(WidthOf(f))
  BY OffsetsRise DEF WordsOf, WordsOfWidth
<1>4. \A i \in DOMAIN FieldsOf(f) :
        /\ FieldBits(f, w, i) \in WordsOfWidth(SizeOf(f, i))
        /\ SizeOf(f, i) \in Nat /\ Offset(f, i) \in Nat
        /\ \A j \in 1 .. SizeOf(f, i) : FieldBits(f, w, i)[j] = w[Offset(f, i) + j]
  BY <1>3, FieldsWithin, FieldBitsAre
<1>5. "x" \notin ToSet(pred.value) \/ pred.op # "FieldEq"
  OBVIOUS
<1> SUFFICES Goal
  OBVIOUS
<1> HIDE DEF pred
<1>6. CASE pred.op = "Never"
  <2>1. 1 \in DOMAIN FieldsOf(f)
    BY FormShape
  <2> QED BY <1>6, <2>1 DEF Check, FieldMeets
<1>7. CASE pred.op = "BitEq"
  <2>1. Check(pred, f, w) <=> w[pred.index] = pred.value
    BY <1>7 DEF Check
  <2>2. PICK i \in DOMAIN FieldsOf(f) : pred.index - Offset(f, i) \in 1 .. SizeOf(f, i)
    BY <1>2, <1>7, BitInField
  <2>3. ASSUME NEW j \in DOMAIN FieldsOf(f), pred.index - Offset(f, j) \in 1 .. SizeOf(f, j)
        PROVE  FieldBits(f, w, j)[pred.index - Offset(f, j)] = w[pred.index]
    <3>1. Offset(f, j) + (pred.index - Offset(f, j)) = pred.index
      BY <1>2, <1>3, <1>4, <1>7
    <3> QED BY <1>4, <2>3, <3>1
  <2> QED BY <1>7, <2>1, <2>2, <2>3 DEF FieldMeets
<1>8. CASE pred.op \in {"FieldEq", "FieldIn"}
  <2>1. PICK i \in DOMAIN FieldsOf(f) : \A j \in DOMAIN FieldsOf(f) :
               FieldsOf(f)[j].name = pred.field <=> j = i
    BY <1>2, <1>8
  <2> DEFINE v == FieldBits(f, w, i)
  <2>2. FieldValue(f, w, pred.field) = v
    <3>1. {j \in DOMAIN FieldsOf(f) : FieldsOf(f)[j].name = pred.field} = {i}
      BY <2>1
    <3>2. i \in Nat
      BY FieldsWithin
    <3>3. Min({i}) = i
      BY <3>2 DEF Min
    <3> QED BY <3>1, <3>3 DEF FieldValue
  <2>3. v \in WordsOfWidth(SizeOf(f, i)) /\ SizeOf(f, i) \in Nat
    BY <1>4
  <2> HIDE DEF v
  <2>4. CASE pred.op = "FieldEq"
    <3>1. Check(pred, f, w) <=> v = pred.value
      BY <2>2, <2>4 DEF Check
    <3>2. (\A j \in DOMAIN FieldsOf(f) : FieldMeets(pred, f, j, FieldBits(f, w, j)))
            <=> MatchesBits(pred.value, v)
      BY <2>1, <2>4 DEF FieldMeets, v
    <3>3. pred.value \in Seq(Bit)
      BY <1>1, <2>4 DEF Predicate
    <3>4. \A j \in DOMAIN pred.value : pred.value[j] # "x"
      BY <1>5, <2>4 DEF ToSet
    <3>5. MatchesBits(pred.value, v) => v = pred.value
      <4> SUFFICES ASSUME MatchesBits(pred.value, v) PROVE v = pred.value
        OBVIOUS
      <4> DEFINE p == pred.value
                 size == SizeOf(f, i)
      <4>1. Len(p) = size /\ p \in PatternsOf(size)
        BY <2>3, <3>3, PatternOfLength, WordShape DEF MatchesBits
      <4>2. \A j \in 1 .. size : p[j] # "x"
        BY <3>4, <4>1, <2>3, PatternShape
      <4> HIDE DEF p, size
      <4>3. \A j \in 1 .. size : p[j] = v[j]
        BY <2>3, <4>1, <4>2, MatchesMeans DEF p, size
      <4>4. v = p
        BY <2>3, <4>1, <4>3 DEF PatternsOf, WordsOfWidth, size
      <4> QED BY <4>4 DEF p
    <3>6. v = pred.value => MatchesBits(pred.value, v)
      BY <2>3, WordShape, MatchesMeans
    <3> QED BY <3>1, <3>2, <3>5, <3>6
  <2>5. CASE pred.op = "FieldIn"
    <3>1. Check(pred, f, w) <=> \E q \in pred.values : MatchesBits(q, v)
      BY <2>2, <2>5 DEF Check
    <3>2. (\A j \in DOMAIN FieldsOf(f) : FieldMeets(pred, f, j, FieldBits(f, w, j)))
            <=> \E q \in pred.values : MatchesBits(q, v)
      BY <2>1, <2>5 DEF FieldMeets, v
    <3> QED BY <3>1, <3>2
  <2> QED BY <1>8, <2>4, <2>5
<1> QED BY <1>1, <1>6, <1>7, <1>8

LegalUnder(f, w, u) == Matches(f, w) /\ Valid(f, w, u)

\* A word of a form is legal when its predicate holds and every field has a pattern for
\* the bits.
LEMMA LegalMeans ==
  ASSUME NEW u, UsesFit(u), NEW f \in Forms, NEW w \in WordsOf[f]
  PROVE  LegalUnder(f, w, u)
           <=> /\ WhenHolds(f, w)
               /\ \A i \in DOMAIN FieldsOf(f) : Matched(UsesOf(f, i, u), FieldBits(f, w, i))
<1>1. WidthOf(f) \in Nat /\ w \in WordsOfWidth(WidthOf(f)) /\ Len(w) = WidthOf(f)
  BY OffsetsRise, WordShape DEF WordsOf, WordsOfWidth
<1>2. ASSUME NEW i \in DOMAIN FieldsOf(f)
      PROVE  Matched(UsesOf(f, i, u), FieldBits(f, w, i))
               <=> /\ MatchesBits(FieldsOf(f)[i].pattern, FieldBits(f, w, i))
                   /\ FieldsOf(f)[i].name # "" =>
                        \E p \in u[FieldsOf(f)[i].name] : MatchesBits(p, FieldBits(f, w, i))
  <2>1. CASE FieldsOf(f)[i].name = ""
    BY <2>1 DEF Matched, UsesOf
  <2>2. CASE FieldsOf(f)[i].name # ""
    <3>1. FieldBits(f, w, i) \in WordsOfWidth(SizeOf(f, i)) /\ SizeOf(f, i) \in Nat
      BY <1>1, FieldsWithin, FieldBitsAre
    <3>2. FieldsOf(f)[i].pattern \in PatternsOf(SizeOf(f, i))
      BY FieldShape DEF SizeOf
    <3>3. MatchesBits(FieldsOf(f)[i].pattern, FieldBits(f, w, i))
      BY <2>2, <3>1, <3>2, FieldOfName, MatchesMeans
    <3> QED BY <2>2, <3>3 DEF Matched, UsesOf
  <2> QED BY <2>1, <2>2
<1> QED BY <1>1, <1>2 DEF LegalUnder, Matches, Valid

\* The patterns of a form and the check of a word say the same.
LEMMA EncodingsAreExact ==
  ASSUME NEW u, UsesFit(u), NEW f \in Forms, Definite(f), NEW w \in WordsOf[f]
  PROVE  Matched(Encodings(f, u), w) <=> LegalUnder(f, w, u)
<1>1. WhenHolds(f, w) <=> \A k \in DOMAIN FormOf(f).when : \A i \in DOMAIN FieldsOf(f) :
                            FieldMeets(FormOf(f).when[k], f, i, FieldBits(f, w, i))
  BY CheckMeans DEF WhenHolds, Definite
<1>2. \A i \in DOMAIN FieldsOf(f) :
        Matched(FieldEncodingsOf(f, i, u), FieldBits(f, w, i))
          <=> /\ Matched(UsesOf(f, i, u), FieldBits(f, w, i))
              /\ \A k \in DOMAIN FormOf(f).when :
                   FieldMeets(FormOf(f).when[k], f, i, FieldBits(f, w, i))
  <2>1. WidthOf(f) \in Nat /\ w \in WordsOfWidth(WidthOf(f))
    BY OffsetsRise DEF WordsOf, WordsOfWidth
  <2>2. \A i \in DOMAIN FieldsOf(f) : FieldBits(f, w, i) \in WordsOfWidth(SizeOf(f, i))
    BY <2>1, FieldsWithin, FieldBitsAre
  <2> QED BY <2>2, FieldEncodingsMean
<1>3. Matched(Encodings(f, u), w)
        <=> \A i \in DOMAIN FieldsOf(f) : Matched(FieldEncodingsOf(f, i, u), FieldBits(f, w, i))
  BY EncodingsMean
<1> QED BY <1>1, <1>2, <1>3, LegalMeans

(***************************************************************************)
(* Decoding, what observing a word does to the uses, and drawing bits.     *)
(***************************************************************************)

\* A word that is decoded is of the form found, and of that form alone.
LEMMA DecodeMeans ==
  ASSUME NEW w \in Words, Decodings[w] # {}
  PROVE  /\ Decode(w) \in Forms /\ Matches(Decode(w), w)
         /\ Cardinality(FindMatch(Decode(w)[1], w)) = 1
<1> DEFINE n == Min(Decodings[w])
<1>1. Decodings[w] = {m \in DOMAIN Instructions : Cardinality(FindMatch(m, w)) = 1}
  BY DEF Decodings
<1>2. DOMAIN Instructions \subseteq Nat
  <2> DEFINE F == Seq([fields : Seq(Field) \ {<<>>}, when : Seq(Predicate), excluded : BOOLEAN])
  <2>1. Instructions \in Seq(F)
    BY InstructionsAssumption
  <2> HIDE DEF F
  <2> QED BY <2>1
<1>3. n \in Decodings[w]
  <2>1. Decodings[w] \in SUBSET Nat
    BY <1>1, <1>2
  <2>2. \E m \in Decodings[w] : \A k \in Decodings[w] : m <= k
    BY <2>1, LeastNatural
  <2> QED BY <2>2 DEF Min
<1> HIDE DEF n
<1>4. n \in DOMAIN Instructions /\ Cardinality(FindMatch(n, w)) = 1
  BY <1>1, <1>3
<1>5. FindMatch(n, w) # {}
  BY <1>4, FS_EmptySet
<1>6. Decode(w) \in FindMatch(n, w)
  BY <1>5 DEF Decode, n
<1>7. PICK k \in DOMAIN Instructions[n] : Decode(w) = <<n, k>>
  BY <1>6 DEF FindMatch
<1>8. Decode(w) \in Forms /\ Decode(w)[1] = n
  BY <1>4, <1>7 DEF Forms
<1> QED BY <1>4, <1>6, <1>8 DEF FindMatch

\* A word that a form matches is a word of it.
LEMMA MatchedWord ==
  ASSUME NEW w \in Words, NEW f \in Forms, Matches(f, w)
  PROVE  w \in WordsOf[f] /\ w \in WordsOfWidth(WidthOf(f)) /\ WidthOf(f) \in Nat
<1>1. PICK g \in Forms : w \in WordsOf[g]
  BY DEF Words
<1>2. WidthOf(g) \in Nat /\ w \in WordsOfWidth(WidthOf(g))
  BY <1>1, OffsetsRise DEF WordsOf, WordsOfWidth
<1>3. WidthOf(f) = WidthOf(g)
  BY <1>2, WordShape DEF Matches
<1> QED BY <1>2, <1>3 DEF WordsOf, WordsOfWidth

\* The smallest pattern over a set of patterns matches what they match.
LEMMA HullMeans ==
  ASSUME NEW w \in Nat, NEW ps \in SUBSET PatternsOf(w), ps # {}
  PROVE  \E h \in PatternsOf(w) : Hull(ps) = {h} /\ \A p \in ps : Covers(h, p)
<1> DEFINE q == CHOOSE p \in ps : TRUE
           h == [i \in DOMAIN q |-> IF \A p \in ps : p[i] = q[i] THEN q[i] ELSE "x"]
<1>1. Hull(ps) = {h}
  BY DEF Hull
<1>2. q \in ps
  OBVIOUS
<1> HIDE DEF q
<1>3. h \in PatternsOf(w)
  BY <1>2 DEF PatternsOf, Bit
<1>4. \A i \in 1 .. w : h[i] = IF \A p \in ps : p[i] = q[i] THEN q[i] ELSE "x"
  BY <1>2, PatternShape
<1> HIDE DEF h
<1>5. \A p \in ps : Covers(h, p)
  BY <1>3, <1>4, CoversMeans
<1> QED BY <1>1, <1>3, <1>5

\* The uses v allow what the uses u do.
Allows(v, u) ==
  \A name \in Names : \A b \in WordsOfWidth(Len(FieldNamed(name).pattern)) :
    Matched(u[name], b) => Matched(v[name], b)

\* Field uses that only grow keep a word valid.
LEMMA ValidStays ==
  ASSUME NEW u, NEW v, Allows(v, u), NEW f \in Forms, NEW w \in WordsOf[f], Valid(f, w, u)
  PROVE  Valid(f, w, v)
<1>1. WidthOf(f) \in Nat /\ w \in WordsOfWidth(WidthOf(f))
  BY OffsetsRise DEF WordsOf, WordsOfWidth
<1>2. ASSUME NEW i \in DOMAIN FieldsOf(f), FieldsOf(f)[i].name # ""
      PROVE  \E p \in v[FieldsOf(f)[i].name] : MatchesBits(p, FieldBits(f, w, i))
  <2>1. /\ FieldsOf(f)[i].name \in Names
        /\ FieldBits(f, w, i) \in WordsOfWidth(Len(FieldNamed(FieldsOf(f)[i].name).pattern))
    BY ZenonT(40), <1>1, <1>2, FieldOfName, FieldsWithin, FieldBitsAre
  <2>2. Matched(u[FieldsOf(f)[i].name], FieldBits(f, w, i))
    BY <1>2 DEF Valid, Matched
  <2> QED BY <2>1, <2>2 DEF Allows, Matched
<1> QED BY <1>2 DEF Valid

\* A VariableBits has at most one pattern.
OnePattern(u) == \A name \in Names : ~FieldNamed(name).uses => Cardinality(u[name]) <= 1

\* Observing an instruction only adds to the uses, allows the instruction, and leaves a
\* VariableBits with one pattern.
LEMMA WidenedMeans ==
  ASSUME UsesFit(uses), OnePattern(uses), NEW f \in Forms, NEW w \in WordsOf[f]
  PROVE  /\ UsesFit(Widened(f, w)) /\ OnePattern(Widened(f, w))
         /\ Allows(Widened(f, w), uses)
         /\ WhenHolds(f, w) => Valid(f, w, Widened(f, w))
<1> DEFINE u == Widened(f, w)
           Size(name) == Len(FieldNamed(name).pattern)
<1>1. WidthOf(f) \in Nat /\ w \in WordsOfWidth(WidthOf(f))
  BY OffsetsRise DEF WordsOf, WordsOfWidth
<1>2. ASSUME NEW name \in Names, NEW b \in Observed(f, w, name)
      PROVE  b \in WordsOfWidth(Size(name)) /\ MatchesBits(b, b)
  <2>1. PICK i \in DOMAIN FieldsOf(f) : FieldsOf(f)[i].name = name /\ b = FieldBits(f, w, i)
    BY <1>2 DEF Observed
  <2>2. name # ""
    BY DEF Names, Named
  <2>3. b \in WordsOfWidth(SizeOf(f, i)) /\ SizeOf(f, i) = Size(name) /\ SizeOf(f, i) \in Nat
    BY <1>1, <2>1, <2>2, FieldOfName, FieldsWithin, FieldBitsAre
  <2> QED BY <2>3, WordShape, MatchesMeans
<1>3. ASSUME NEW name \in Names
      PROVE  /\ u[name] \subseteq PatternsOf(Size(name))
             /\ ~FieldNamed(name).uses => Cardinality(u[name]) <= 1
             /\ \A b \in WordsOfWidth(Size(name)) :
                  Matched(uses[name] \cup Observed(f, w, name), b) => Matched(u[name], b)
  <2> DEFINE seen == Observed(f, w, name)
             all == uses[name] \cup seen
  <2>1. u[name] = IF seen = {} THEN uses[name]
                  ELSE IF FieldNamed(name).uses THEN all ELSE Hull(all)
    BY DEF Widened
  <2>2. Size(name) \in Nat
    BY NamesFit
  <2>3. uses[name] \subseteq PatternsOf(Size(name)) /\ seen \subseteq PatternsOf(Size(name))
    BY <1>2, <2>2, WordShape DEF UsesFit
  <2>4. ~FieldNamed(name).uses => Cardinality(uses[name]) <= 1
    BY DEF OnePattern
  <2> HIDE DEF u, seen, Size
  <2>5. CASE seen = {}
    BY <2>1, <2>3, <2>4, <2>5 DEF seen
  <2>6. CASE seen # {} /\ FieldNamed(name).uses
    BY <2>1, <2>3, <2>6 DEF seen
  <2>7. CASE seen # {} /\ ~FieldNamed(name).uses
    <3>1. all \in SUBSET PatternsOf(Size(name)) /\ all # {}
      BY <2>3, <2>7
    <3>2. PICK h \in PatternsOf(Size(name)) : Hull(all) = {h} /\ \A p \in all : Covers(h, p)
      BY <2>2, <3>1, HullMeans
    <3>3. Cardinality({h}) = 1
      BY FS_Singleton
    <3>4. u[name] = {h}
      BY <2>1, <2>7, <3>2
    <3>5. ASSUME NEW b \in WordsOfWidth(Size(name)), Matched(all, b) PROVE Matched(u[name], b)
      BY <2>2, <3>1, <3>2, <3>4, <3>5, CoversMatches DEF Matched
    <3> QED BY SMTT(40), <3>3, <3>4, <3>5 DEF seen
  <2> QED BY <2>5, <2>6, <2>7
<1>4. UsesFit(u) /\ OnePattern(u)
  <2>1. DOMAIN u = Names
    BY DEF Widened
  <2> HIDE DEF u
  <2> QED BY <1>3, <2>1 DEF UsesFit, OnePattern
<1>5. Allows(u, uses)
  <2> HIDE DEF u
  <2> QED BY <1>3 DEF Allows, Matched
<1>6. ASSUME NEW i \in DOMAIN FieldsOf(f), FieldsOf(f)[i].name # ""
      PROVE  \E p \in u[FieldsOf(f)[i].name] : MatchesBits(p, FieldBits(f, w, i))
  <2> DEFINE name == FieldsOf(f)[i].name
             b == FieldBits(f, w, i)
  <2>1. name \in Names
    BY <1>6, FieldOfName
  <2>2. b \in Observed(f, w, name)
    BY DEF Observed
  <2> HIDE DEF u, name, b
  <2>3. b \in WordsOfWidth(Size(name)) /\ MatchesBits(b, b)
    BY <1>2, <2>1, <2>2
  <2>4. Matched(uses[name] \cup Observed(f, w, name), b)
    BY <2>2, <2>3 DEF Matched
  <2>5. Matched(u[name], b)
    BY <1>3, <2>1, <2>3, <2>4
  <2> QED BY <2>5 DEF Matched, name, b
<1> HIDE DEF u
<1>7. WhenHolds(f, w) => Valid(f, w, u)
  BY <1>6 DEF Valid
<1> QED BY <1>4, <1>5, <1>7 DEF u

\* Drawing the bits of the next field leaves those of the fields before.
LEMMA BitsExtend ==
  ASSUME NEW f \in Forms, NEW i \in DOMAIN FieldsOf(f),
         NEW bits \in WordsOfWidth(Offset(f, i)), NEW v \in WordsOfWidth(SizeOf(f, i))
  PROVE  /\ bits \o v \in WordsOfWidth(Offset(f, i + 1))
         /\ FieldBits(f, bits \o v, i) = v
         /\ \A j \in 1 .. i - 1 :
              j \in DOMAIN FieldsOf(f) /\ FieldBits(f, bits \o v, j) = FieldBits(f, bits, j)
<1> DEFINE a == Offset(f, i)
           b == SizeOf(f, i)
           c == bits \o v
<1>1. a \in Nat /\ b \in Nat /\ Offset(f, i + 1) = a + b /\ a + b <= WidthOf(f) /\ WidthOf(f) \in Nat
  BY FieldsWithin, OffsetsRise
<1>2. Len(FieldsOf(f)) \in Nat /\ i \in 1 .. Len(FieldsOf(f)) /\ DOMAIN FieldsOf(f) = 1 .. Len(FieldsOf(f))
  BY FormShape
<1>3. c \in WordsOfWidth(a + b) /\ \A k \in 1 .. a + b : c[k] = IF k <= a THEN bits[k] ELSE v[k - a]
  <2>1. bits \in Seq(Concrete) /\ v \in Seq(Concrete) /\ Len(bits) = a /\ Len(v) = b
    BY <1>1, WordShape
  <2>2. c \in Seq(Concrete) /\ Len(c) = a + b
    BY ZenonT(40), <2>1, ConcatProperties
  <2>3. \A k \in 1 .. a + b : c[k] = IF k <= a THEN bits[k] ELSE v[k - a]
    BY <2>1, ConcatProperties
  <2> HIDE DEF c, a, b
  <2>4. c \in WordsOfWidth(a + b)
    BY <2>2 DEF WordsOfWidth
  <2> QED BY <2>3, <2>4
<1> HIDE DEF c
<1>4. FieldBits(f, c, i) = v
  <2>1. FieldBits(f, c, i) \in WordsOfWidth(b) /\ \A k \in 1 .. b : FieldBits(f, c, i)[k] = c[a + k]
    BY <1>1, <1>3, FieldBitsAre
  <2>2. \A k \in 1 .. b : c[a + k] = v[k]
    <3> HIDE DEF a, b
    <3>1. \A k \in 1 .. b : a + k \in 1 .. a + b /\ ~(a + k <= a) /\ (a + k) - a = k
      BY <1>1
    <3> QED BY <1>3, <3>1
  <2> QED BY <2>1, <2>2, SameWord
<1>5. ASSUME NEW j \in 1 .. i - 1
      PROVE  j \in DOMAIN FieldsOf(f) /\ FieldBits(f, c, j) = FieldBits(f, bits, j)
  <2>1. j \in DOMAIN FieldsOf(f) /\ j + 1 <= i /\ j + 1 \in 1 .. Len(FieldsOf(f)) + 1
        /\ i \in 1 .. Len(FieldsOf(f)) + 1
    BY <1>2
  <2>2. Offset(f, j + 1) <= a /\ Offset(f, j + 1) \in Nat
    BY <2>1, OffsetsRise, FieldsWithin
  <2>3. Offset(f, j + 1) <= a + b /\ a + b \in Nat
    BY <1>1, <2>2
  <2>4. /\ FieldBits(f, bits, j) \in WordsOfWidth(SizeOf(f, j))
        /\ \A k \in 1 .. SizeOf(f, j) :
             Offset(f, j) + k \in 1 .. a /\ FieldBits(f, bits, j)[k] = bits[Offset(f, j) + k]
    BY ZenonT(40), <1>1, <2>1, <2>2, FieldBitsAre
  <2>5. /\ FieldBits(f, c, j) \in WordsOfWidth(SizeOf(f, j))
        /\ \A k \in 1 .. SizeOf(f, j) : FieldBits(f, c, j)[k] = c[Offset(f, j) + k]
    BY <1>3, <2>1, <2>3, FieldBitsAre
  <2>6. \A k \in 1 .. a : c[k] = bits[k]
    <3> HIDE DEF a, b
    <3>1. \A k \in 1 .. a : k \in 1 .. a + b /\ k <= a
      BY <1>1
    <3> QED BY <1>3, <3>1
  <2> QED BY SMTT(40), <2>1, <2>4, <2>5, <2>6, SameWord
<1> QED BY <1>1, <1>3, <1>4, <1>5 DEF c

\* Changing the bits of a field leaves those of the others.
LEMMA WithBitsMean ==
  ASSUME NEW f \in Forms, NEW i \in DOMAIN FieldsOf(f), NEW w \in WordsOf[f],
         NEW v \in WordsOfWidth(SizeOf(f, i))
  PROVE  /\ WithBits(w, Offset(f, i), v) \in WordsOf[f]
         /\ \A j \in DOMAIN FieldsOf(f) \ {i} :
              FieldBits(f, WithBits(w, Offset(f, i), v), j) = FieldBits(f, w, j)
<1> DEFINE a == Offset(f, i)
           b == SizeOf(f, i)
           c == WithBits(w, a, v)
           m == WidthOf(f)
<1>1. a \in Nat /\ b \in Nat /\ Offset(f, i + 1) = a + b /\ a + b <= m /\ m \in Nat
  BY FieldsWithin, OffsetsRise
<1>2. Len(FieldsOf(f)) \in Nat /\ i \in 1 .. Len(FieldsOf(f)) /\ DOMAIN FieldsOf(f) = 1 .. Len(FieldsOf(f))
  BY FormShape
<1>3. w \in WordsOfWidth(m) /\ WordsOf[f] = WordsOfWidth(m)
  BY DEF WordsOf, WordsOfWidth
<1>4. DOMAIN w = 1 .. m /\ DOMAIN v = 1 .. b
  BY <1>1, <1>3, WordShape
<1> HIDE DEF a, b, m
<1>5. c = [k \in 1 .. m |-> IF k - a \in 1 .. b THEN v[k - a] ELSE w[k]]
  BY <1>4 DEF WithBits
<1>6. c \in WordsOfWidth(m)
  BY <1>3, <1>5 DEF WordsOfWidth, b
<1>7. \A k \in 1 .. m : k <= a \/ a + b < k => c[k] = w[k]
  BY <1>1, <1>5
<1> HIDE DEF c
<1>8. ASSUME NEW j \in DOMAIN FieldsOf(f) \ {i} PROVE FieldBits(f, c, j) = FieldBits(f, w, j)
  <2>1. /\ j \in DOMAIN FieldsOf(f) /\ (j + 1 <= i \/ i + 1 <= j)
        /\ j \in 1 .. Len(FieldsOf(f)) + 1 /\ j + 1 \in 1 .. Len(FieldsOf(f)) + 1
        /\ i \in 1 .. Len(FieldsOf(f)) + 1 /\ i + 1 \in 1 .. Len(FieldsOf(f)) + 1
    BY <1>2
  <2>2. Offset(f, j + 1) <= a \/ a + b <= Offset(f, j)
    BY <1>1, <2>1, OffsetsRise DEF a
  <2>3. /\ Offset(f, j) \in Nat /\ SizeOf(f, j) \in Nat
        /\ Offset(f, j + 1) = Offset(f, j) + SizeOf(f, j) /\ Offset(f, j + 1) <= m
    BY <2>1, FieldsWithin DEF m
  <2>4. \A x \in WordsOfWidth(m) :
          /\ FieldBits(f, x, j) \in WordsOfWidth(SizeOf(f, j))
          /\ \A k \in 1 .. SizeOf(f, j) :
               Offset(f, j) + k \in 1 .. m /\ FieldBits(f, x, j)[k] = x[Offset(f, j) + k]
    BY ZenonT(40), <1>1, <2>1, <2>3, FieldBitsAre
  <2>5. \A k \in 1 .. SizeOf(f, j) : c[Offset(f, j) + k] = w[Offset(f, j) + k]
    <3> SUFFICES ASSUME NEW k \in 1 .. SizeOf(f, j)
                 PROVE  c[Offset(f, j) + k] = w[Offset(f, j) + k]
      OBVIOUS
    <3>1. Offset(f, j) + k \in 1 .. m
      BY <1>3, <2>4
    <3>2. Offset(f, j) + k <= a \/ a + b < Offset(f, j) + k
      BY <1>1, <2>2, <2>3
    <3> QED BY <1>7, <3>1, <3>2
  <2>6. \A k \in 1 .. SizeOf(f, j) : FieldBits(f, c, j)[k] = FieldBits(f, w, j)[k]
    BY <1>3, <1>6, <2>4, <2>5
  <2>7. FieldBits(f, c, j) \in WordsOfWidth(SizeOf(f, j)) /\ FieldBits(f, w, j) \in WordsOfWidth(SizeOf(f, j))
    BY <1>3, <1>6, <2>4
  <2> QED BY <2>6, <2>7, SameWord
<1> QED BY <1>3, <1>6, <1>8 DEF c, a

(***************************************************************************)
(* The invariant of observing and drawing.                                 *)
(***************************************************************************)

\* While an instruction is drawn, its form has a legal word, and the fields drawn so
\* far have bits that their uses allow.
DrawingFits ==
  stage \in {"draw", "drawn"} =>
    /\ drawn \in [form : Forms, field : Nat, bits : Seq(Concrete)]
    /\ stage = "draw" =>
         /\ LegalCount(drawn.form, uses) > 0
         /\ drawn.field \in 1 .. Len(FieldsOf(drawn.form)) + 1
         /\ drawn.bits \in WordsOfWidth(Offset(drawn.form, drawn.field))
         /\ \A i \in 1 .. drawn.field - 1 :
              Matched(UsesOf(drawn.form, i, uses), FieldBits(drawn.form, drawn.bits, i))

ProgramDecodes == \A k \in DOMAIN program : Decodings[program[k]] # {}

IInv == EncodingInvariant /\ DrawingFits /\ ProgramDecodes

\* The type invariant says that the uses fit.
LEMMA UsesTyped ==
  ASSUME TypeOK
  PROVE  UsesFit(uses) /\ OnePattern(uses)
BY DEF TypeOK, UsesFit, OnePattern

\* Nothing is observed or drawn yet.
LEMMA Start == Init => IInv
<1> SUFFICES ASSUME Init PROVE IInv
  OBVIOUS
<1>1. stage \in {"observe", "ready"} /\ program = <<>>
  BY DEF Init
<1>2. forms \subseteq Forms
  BY GivenFormsAssumption DEF Init
<1>3. UsesFit(uses) /\ OnePattern(uses)
  <2>1. CASE uses = EmptyUses
    <3>1. Cardinality({}) = 0
      BY FS_EmptySet
    <3> QED BY <2>1, <3>1 DEF EmptyUses, UsesFit, OnePattern
  <2>2. CASE uses = MaxUses
    <3>1. \A name \in Names : FieldNamed(name).pattern \in PatternsOf(Len(FieldNamed(name).pattern))
      BY NamesFit
    <3>2. \A name \in Names : Cardinality({FieldNamed(name).pattern}) = 1
      BY FS_Singleton
    <3>3. \A name \in Names : uses[name] = {FieldNamed(name).pattern}
      BY <2>2 DEF MaxUses
    <3>4. DOMAIN uses = Names
      BY <2>2 DEF MaxUses
    <3> QED BY <3>1, <3>2, <3>3, <3>4 DEF UsesFit, OnePattern
  <2>3. CASE uses \in RandomUses
    <3>1. DOMAIN uses = Names /\ \A name \in Names : uses[name] \in RandomFieldUses(name)
      BY <2>3 DEF RandomUses
    <3>2. ASSUME NEW name \in Names, NEW ps \in RandomFieldUses(name)
          PROVE  /\ ps \subseteq PatternsOf(Len(FieldNamed(name).pattern))
                 /\ ~FieldNamed(name).uses => Cardinality(ps) <= 1
      <4> DEFINE w == Len(FieldNamed(name).pattern)
      <4>1. w \in Nat
        BY NamesFit
      <4> HIDE DEF w
      <4>2. CASE FieldNamed(name).uses
        <5>1. PICK ws \in SUBSET RandomConcretePatterns(w) : ps = MergeOf(ws)
          BY <3>2, <4>2 DEF RandomFieldUses, w
        <5>2. ws \in SUBSET PatternsOf(w)
          BY <4>1, WordShape DEF RandomConcretePatterns, WordsOfWidth
        <5> QED BY <4>1, <4>2, <5>1, <5>2, MergeOfMeans DEF w
      <4>3. CASE ~FieldNamed(name).uses
        <5>1. PICK p \in PatternsOf(w) : ps = {p}
          BY <3>2, <4>3 DEF RandomFieldUses, RandomBitPatterns, w
        <5>2. Cardinality({p}) = 1
          BY FS_Singleton
        <5> QED BY <5>1, <5>2 DEF w
      <4> QED BY <4>2, <4>3
    <3> QED BY <3>1, <3>2 DEF UsesFit, OnePattern
  <2> QED BY <2>1, <2>2, <2>3 DEF Init
<1>4. program \in Seq(Words) /\ DOMAIN program = {}
  BY <1>1
<1>5. TypeOK
  BY <1>1, <1>2, <1>3, <1>4 DEF TypeOK, UsesFit, OnePattern
<1> QED BY <1>1, <1>4, <1>5
  DEF IInv, EncodingInvariant, ProgramSupported, DrawnIsLegal, DrawingFits, ProgramDecodes

\* Observing supports the new instruction and keeps the earlier ones.
LEMMA ObserveKeeps ==
  ASSUME IInv, Observe PROVE IInv'
<1>1. TypeOK /\ UsesFit(uses) /\ OnePattern(uses)
  BY UsesTyped DEF IInv, EncodingInvariant
<1>2. PICK w \in Words :
        /\ Decodings[w] # {}
        /\ uses' = Widened(Decode(w), w)
        /\ forms' = forms \cup {Decode(w)}
        /\ program' = Append(program, w)
  BY DEF Observe
<1>3. stage = "observe" /\ stage' = "observe" /\ drawn' = drawn
  BY DEF Observe
<1>4. Decode(w) \in Forms /\ Matches(Decode(w), w)
  BY <1>2, DecodeMeans
<1>5. w \in WordsOf[Decode(w)]
  BY <1>4, MatchedWord
<1>6. UsesFit(uses') /\ OnePattern(uses') /\ Allows(uses', uses) /\ Valid(Decode(w), w, uses')
  <2>1. WhenHolds(Decode(w), w)
    BY <1>4 DEF Matches
  <2> QED BY <1>1, <1>2, <1>4, <1>5, <2>1, WidenedMeans
<1>7. program \in Seq(Words) /\ forms \subseteq Forms
  BY <1>1 DEF TypeOK
<1>8. program' \in Seq(Words) /\ forms' \subseteq Forms
  BY <1>2, <1>4, <1>7
<1>9. TypeOK'
  BY <1>3, <1>6, <1>8 DEF TypeOK, UsesFit, OnePattern
<1>10. ASSUME NEW k \in DOMAIN program'
       PROVE  (k \in DOMAIN program /\ program'[k] = program[k]) \/ program'[k] = w
  BY <1>2, <1>7
<1>11. ASSUME NEW k \in DOMAIN program
       PROVE  /\ Decodings[program[k]] # {}
              /\ Supports(uses', forms', Decode(program[k]), program[k])
  <2>1. program[k] \in Words
    BY <1>7
  <2>2. Decodings[program[k]] # {} /\ Supports(uses, forms, Decode(program[k]), program[k])
    BY DEF IInv, EncodingInvariant, ProgramDecodes, ProgramSupported
  <2>3. Decode(program[k]) \in Forms /\ program[k] \in WordsOf[Decode(program[k])]
    BY <2>1, <2>2, DecodeMeans, MatchedWord
  <2> QED BY <1>2, <1>6, <2>2, <2>3, ValidStays DEF Supports
<1>12. Supports(uses', forms', Decode(w), w)
  BY <1>2, <1>6 DEF Supports
<1>13. ProgramSupported' /\ ProgramDecodes'
  BY <1>2, <1>10, <1>11, <1>12 DEF ProgramSupported, ProgramDecodes
<1> QED BY <1>3, <1>9, <1>13 DEF IInv, EncodingInvariant, DrawnIsLegal, DrawingFits

\* Merging changes no value that a field may have.
LEMMA MergeUsesKeeps ==
  ASSUME IInv, MergeUses PROVE IInv'
<1>1. TypeOK /\ UsesFit(uses) /\ OnePattern(uses)
  BY UsesTyped DEF IInv, EncodingInvariant
<1>2. /\ stage' = "ready" /\ forms' = forms /\ program' = program
      /\ DOMAIN uses' = Names
      /\ \A name \in Names :
           uses'[name] = IF FieldNamed(name).uses THEN MergeOf(uses[name]) ELSE uses[name]
  BY DEF MergeUses
<1>3. ASSUME NEW name \in Names
      PROVE  /\ uses'[name] \subseteq PatternsOf(Len(FieldNamed(name).pattern))
             /\ \A b \in WordsOfWidth(Len(FieldNamed(name).pattern)) :
                  Matched(uses'[name], b) <=> Matched(uses[name], b)
  <2>1. Len(FieldNamed(name).pattern) \in Nat
    BY NamesFit
  <2>2. uses[name] \in SUBSET PatternsOf(Len(FieldNamed(name).pattern))
    BY <1>1 DEF UsesFit
  <2> QED BY <1>2, <2>1, <2>2, MergeOfMeans
<1>4. UsesFit(uses') /\ OnePattern(uses') /\ Allows(uses', uses)
  BY <1>1, <1>2, <1>3 DEF UsesFit, OnePattern, Allows
<1>5. TypeOK'
  BY <1>1, <1>2, <1>4 DEF TypeOK, UsesFit, OnePattern
<1>6. ASSUME NEW k \in DOMAIN program
      PROVE  /\ Decodings[program[k]] # {}
             /\ Supports(uses', forms', Decode(program[k]), program[k])
  <2>1. program[k] \in Words
    BY <1>1 DEF TypeOK
  <2>2. Decodings[program[k]] # {} /\ Supports(uses, forms, Decode(program[k]), program[k])
    BY DEF IInv, EncodingInvariant, ProgramDecodes, ProgramSupported
  <2>3. Decode(program[k]) \in Forms /\ program[k] \in WordsOf[Decode(program[k])]
    BY <2>1, <2>2, DecodeMeans, MatchedWord
  <2> QED BY <1>2, <1>4, <2>2, <2>3, ValidStays DEF Supports
<1>7. ProgramSupported' /\ ProgramDecodes'
  BY <1>2, <1>6 DEF ProgramSupported, ProgramDecodes
<1> QED BY <1>2, <1>5, <1>7 DEF IInv, EncodingInvariant, DrawnIsLegal, DrawingFits

\* The steps of drawing leave the candidate as it is.
LEMMA CandidateKept ==
  ASSUME IInv, UNCHANGED <<uses, forms, program>>,
         stage' \in {"observe", "ready", "draw", "drawn"},
         stage' \in {"draw", "drawn"} => drawn'.form \in Forms
  PROVE  TypeOK' /\ ProgramSupported' /\ ProgramDecodes'
BY DEF IInv, EncodingInvariant, TypeOK, ProgramSupported, ProgramDecodes

\* A drawing begins with no bits.
LEMMA SelectFormKeeps ==
  ASSUME IInv, SelectForm PROVE IInv'
<1>1. PICK f \in Forms : LegalCount(f, uses) > 0 /\ drawn' = [form |-> f, field |-> 1, bits |-> <<>>]
  BY DEF SelectForm
<1>2. stage' = "draw" /\ UNCHANGED <<uses, forms, program>>
  BY DEF SelectForm
<1>3. drawn' \in [form : Forms, field : Nat, bits : Seq(Concrete)]
  BY <1>1
<1>4. drawn'.field \in 1 .. Len(FieldsOf(f)) + 1 /\ 1 .. drawn'.field - 1 = {}
  BY <1>1, FormShape
<1>5. drawn'.bits \in WordsOfWidth(Offset(f, drawn'.field))
  <2>1. Offset(f, 1) = 0
    BY OffsetSteps
  <2>2. <<>> \in WordsOfWidth(0)
    BY DEF WordsOfWidth
  <2> QED BY <1>1, <2>1, <2>2
<1>6. TypeOK' /\ ProgramSupported' /\ ProgramDecodes'
  BY <1>1, <1>2, CandidateKept
<1>7. DrawingFits'
  BY <1>1, <1>2, <1>3, <1>4, <1>5 DEF DrawingFits
<1> QED BY <1>2, <1>6, <1>7 DEF IInv, EncodingInvariant, DrawnIsLegal

\* Starting over is the state a form is selected in.
LEMMA StartOverKeeps ==
  ASSUME IInv, stage = "draw", StartOver, UNCHANGED <<uses, forms, program, stage>>
  PROVE  IInv'
<1> DEFINE f == drawn.form
<1>1. drawn \in [form : Forms, field : Nat, bits : Seq(Concrete)] /\ LegalCount(f, uses) > 0
  BY DEF IInv, DrawingFits
<1>2. drawn' = [form |-> f, field |-> 1, bits |-> <<>>]
  BY <1>1 DEF StartOver
<1>3. f \in Forms /\ drawn' \in [form : Forms, field : Nat, bits : Seq(Concrete)]
  BY <1>1, <1>2
<1>4. drawn'.field \in 1 .. Len(FieldsOf(f)) + 1 /\ 1 .. drawn'.field - 1 = {}
  BY <1>2, <1>3, FormShape
<1>5. drawn'.bits \in WordsOfWidth(Offset(f, drawn'.field))
  <2>1. Offset(f, 1) = 0
    BY <1>3, OffsetSteps
  <2>2. <<>> \in WordsOfWidth(0)
    BY DEF WordsOfWidth
  <2> QED BY <1>2, <2>1, <2>2
<1> HIDE DEF f
<1>6. TypeOK' /\ ProgramSupported' /\ ProgramDecodes'
  BY <1>2, <1>3, CandidateKept
<1>7. DrawingFits'
  BY <1>1, <1>2, <1>3, <1>4, <1>5 DEF DrawingFits
<1> QED BY <1>6, <1>7 DEF IInv, EncodingInvariant, DrawnIsLegal

\* A field drawn adds bits that its patterns allow.
LEMMA DrawFieldKeeps ==
  ASSUME IInv, DrawField PROVE IInv'
<1> DEFINE f == drawn.form
           i == drawn.field
           bits == drawn.bits
<1>1. /\ stage = "draw" /\ stage' = "draw" /\ UNCHANGED <<uses, forms, program>>
      /\ i <= Len(FieldsOf(f))
  BY DEF DrawField, Drawing
<1>2. PICK p \in UsesOf(f, i, uses) : \E c \in Constrained(f, i, p) : \E v \in Filled(c) :
             drawn' = [drawn EXCEPT !.field = @ + 1, !.bits = @ \o v]
  BY DEF DrawField, PatternChoices
<1>3. PICK c \in Constrained(f, i, p) : \E v \in Filled(c) :
             drawn' = [drawn EXCEPT !.field = @ + 1, !.bits = @ \o v]
  BY <1>2
<1>4. PICK v \in Filled(c) : drawn' = [drawn EXCEPT !.field = @ + 1, !.bits = @ \o v]
  BY <1>3
<1>5. /\ drawn \in [form : Forms, field : Nat, bits : Seq(Concrete)]
      /\ LegalCount(f, uses) > 0
      /\ i \in 1 .. Len(FieldsOf(f)) + 1
      /\ bits \in WordsOfWidth(Offset(f, i))
      /\ \A j \in 1 .. i - 1 : Matched(UsesOf(f, j, uses), FieldBits(f, bits, j))
  BY <1>1 DEF IInv, DrawingFits
<1>6. drawn' = [form |-> f, field |-> i + 1, bits |-> bits \o v]
  BY <1>4, <1>5
<1>7. f \in Forms /\ i \in Nat
  BY <1>5
<1> HIDE DEF f, i, bits
<1>8. i \in DOMAIN FieldsOf(f) /\ i + 1 \in 1 .. Len(FieldsOf(f)) + 1
  BY <1>1, <1>5, <1>7, FormShape
<1>9. SizeOf(f, i) \in Nat /\ p \in PatternsOf(SizeOf(f, i))
  <2>1. UsesFit(uses)
    BY UsesTyped DEF IInv, EncodingInvariant
  <2> QED BY <1>7, <1>8, <2>1, UsesOfFit, FieldsWithin
<1>10. v \in WordsOfWidth(SizeOf(f, i)) /\ Matched(UsesOf(f, i, uses), v)
  <2>1. c \in PatternsOf(SizeOf(f, i))
    BY <1>7, <1>8, <1>9, ConstrainedMeans
  <2>2. v \in WordsOfWidth(SizeOf(f, i)) /\ MatchesBits(c, v)
    BY <1>9, <2>1, PatternShape DEF Filled, WordsOfWidth
  <2>3. Matched(Constrained(f, i, p), v)
    BY <2>2 DEF Matched
  <2>4. MatchesBits(p, v)
    BY <1>7, <1>8, <1>9, <2>2, <2>3, ConstrainedMeans
  <2> QED BY <2>2, <2>4 DEF Matched
<1>11. /\ bits \o v \in WordsOfWidth(Offset(f, i + 1))
       /\ FieldBits(f, bits \o v, i) = v
       /\ \A j \in 1 .. i - 1 : FieldBits(f, bits \o v, j) = FieldBits(f, bits, j)
  BY <1>5, <1>7, <1>8, <1>10, BitsExtend
<1>12. bits \o v \in Seq(Concrete)
  BY <1>7, <1>8, <1>11, FieldsWithin, WordShape
<1>13. drawn' \in [form : Forms, field : Nat, bits : Seq(Concrete)]
  BY <1>6, <1>7, <1>12
<1>14. \A j \in 1 .. (i + 1) - 1 : Matched(UsesOf(f, j, uses), FieldBits(f, bits \o v, j))
  <2>1. \A j \in 1 .. (i + 1) - 1 : j = i \/ j \in 1 .. i - 1
    BY <1>7
  <2> QED BY <1>5, <1>10, <1>11, <2>1
<1>15. TypeOK' /\ ProgramSupported' /\ ProgramDecodes'
  BY <1>1, <1>6, <1>7, CandidateKept
<1>16. DrawingFits'
  BY <1>1, <1>5, <1>6, <1>8, <1>11, <1>13, <1>14 DEF DrawingFits
<1> QED BY <1>1, <1>15, <1>16 DEF IInv, EncodingInvariant, DrawnIsLegal

\* A word that passes the check is legal: its fields were drawn from what is allowed.
LEMMA CheckDrawnKeeps ==
  ASSUME IInv, CheckDrawn PROVE IInv'
<1>1. CASE StartOver /\ stage' = stage
  BY <1>1, StartOverKeeps DEF CheckDrawn
<1>2. CASE WhenHolds(drawn.form, drawn.bits) /\ stage' = "drawn" /\ drawn' = drawn
  <2> DEFINE f == drawn.form
             bits == drawn.bits
  <2>1. UNCHANGED <<uses, forms, program>> /\ stage = "draw" /\ ~(drawn.field <= Len(FieldsOf(f)))
    BY DEF CheckDrawn, Drawing
  <2>2. /\ drawn \in [form : Forms, field : Nat, bits : Seq(Concrete)]
        /\ drawn.field \in 1 .. Len(FieldsOf(f)) + 1
        /\ bits \in WordsOfWidth(Offset(f, drawn.field))
        /\ \A j \in 1 .. drawn.field - 1 : Matched(UsesOf(f, j, uses), FieldBits(f, bits, j))
    BY <2>1 DEF IInv, DrawingFits
  <2>3. f \in Forms /\ DOMAIN FieldsOf(f) = 1 .. Len(FieldsOf(f)) /\ Len(FieldsOf(f)) \in Nat
    BY <2>2, FormShape
  <2>4. drawn.field = Len(FieldsOf(f)) + 1 /\ drawn.field - 1 = Len(FieldsOf(f))
    BY <2>1, <2>2, <2>3
  <2>5. bits \in WordsOf[f]
    BY <2>2, <2>3, <2>4 DEF WordsOf, WordsOfWidth, WidthOf
  <2>6. UsesFit(uses)
    BY UsesTyped DEF IInv, EncodingInvariant
  <2> HIDE DEF f, bits
  <2>7. LegalUnder(f, bits, uses)
    BY <1>2, <2>2, <2>3, <2>4, <2>5, <2>6, LegalMeans DEF f, bits
  <2>8. TypeOK' /\ ProgramSupported' /\ ProgramDecodes'
    BY <1>2, <2>1, <2>3, CandidateKept DEF f
  <2>9. DrawingFits'
    BY <1>2, <2>2 DEF DrawingFits
  <2>10. DrawnIsLegal'
    BY <1>2, <2>1, <2>7 DEF DrawnIsLegal, Legal, LegalUnder, f, bits
  <2> QED BY <2>8, <2>9, <2>10 DEF IInv, EncodingInvariant
<1> QED BY <1>1, <1>2 DEF CheckDrawn

\* The field changed is one equal to the field asked for.
LEMMA SelectedIsEqual ==
  ASSUME NEW f \in Forms, NEW i \in DOMAIN FieldsOf(f)
  PROVE  /\ SelectedField(f, i) \in DOMAIN FieldsOf(f)
         /\ FieldsOf(f)[SelectedField(f, i)] = FieldsOf(f)[i]
<1> DEFINE n == Len(FieldsOf(f))
           Same == {j \in DOMAIN FieldsOf(f) : FieldsOf(f)[j] = FieldsOf(f)[i]}
           After == {n - j : j \in Same}
<1>1. n \in Nat /\ DOMAIN FieldsOf(f) = 1 .. n
  BY FormShape
<1>2. Same \subseteq 1 .. n /\ i \in Same
  BY <1>1
<1> HIDE DEF n, Same
<1>3. After \in SUBSET Nat /\ After # {}
  <2>1. \A j \in Same : n - j \in Nat
    BY <1>1, <1>2
  <2>2. n - i \in After
    BY <1>2
  <2> QED BY <2>1, <2>2
<1>4. PICK d \in After : \A k \in After : d <= k
  BY <1>3, LeastNatural
<1>5. PICK m \in Same : d = n - m
  BY <1>4
<1>6. \A j \in Same : m >= j
  <2> SUFFICES ASSUME NEW j \in Same PROVE m >= j
    OBVIOUS
  <2>1. n - m <= n - j
    BY <1>4, <1>5
  <2> QED BY <1>1, <1>2, <2>1
<1>7. Max(Same) \in Same
  BY <1>6 DEF Max
<1> QED BY <1>7 DEF SelectedField, Same

\* A changed field has as many bits as before.
LEMMA ChangedShape ==
  ASSUME UsesFit(uses), NEW f \in Forms, NEW i \in DOMAIN FieldsOf(f), NEW w \in WordsOf[f]
  PROVE  ChangedValues(f, w, i) \subseteq WordsOfWidth(SizeOf(f, i))
<1> DEFINE value == FieldBits(f, w, i)
           size == SizeOf(f, i)
           Flip(k) == [value EXCEPT ![k] = IF @ = "1" THEN "0" ELSE "1"]
<1>1. size \in Nat /\ value \in WordsOfWidth(size)
  BY OffsetsRise, FieldsWithin, FieldBitsAre DEF WordsOf, WordsOfWidth
<1>2. CASE FieldsOf(f)[i].immediate
  <2>1. ChangedValues(f, w, i) = {Flip(k) : k \in DOMAIN value}
    BY <1>2 DEF ChangedValues
  <2> HIDE DEF value, size
  <2>2. \A k \in DOMAIN value : Flip(k) \in WordsOfWidth(size)
    BY <1>1 DEF WordsOfWidth, Concrete
  <2> QED BY <2>1, <2>2 DEF size
<1>3. CASE ~FieldsOf(f)[i].immediate
  <2>1. ChangedValues(f, w, i) = UNION {Filled(c) : c \in FieldEncodingsOf(f, i, uses)}
    BY <1>3 DEF ChangedValues
  <2>2. FieldEncodingsOf(f, i, uses) \subseteq PatternsOf(size)
    BY FieldEncodingsMean
  <2>3. \A c \in PatternsOf(size) : Filled(c) \subseteq WordsOfWidth(size)
    BY <1>1, PatternShape DEF Filled, WordsOfWidth
  <2> HIDE DEF size
  <2>4. UNION {Filled(c) : c \in FieldEncodingsOf(f, i, uses)} \subseteq WordsOfWidth(size)
    BY <2>2, <2>3
  <2> QED BY <2>1, <2>4 DEF size
<1> QED BY <1>2, <1>3

\* A field changed leaves the others and is checked again.
LEMMA ChangeFieldKeeps ==
  ASSUME IInv, ChangeField PROVE IInv'
<1> DEFINE f == drawn.form
           bits == drawn.bits
<1>1. stage = "drawn" /\ stage' = "drawn" /\ UNCHANGED <<uses, forms, program>>
  BY DEF ChangeField
<1>2. PICK i \in DOMAIN FieldsOf(f) :
        /\ FieldsOf(f)[i].name # ""
        /\ \E v \in ChangedValues(f, bits, SelectedField(f, i)) :
             LET changed == WithBits(bits, Offset(f, SelectedField(f, i)), v)
             IN  Valid(f, changed, uses) /\ drawn' = [drawn EXCEPT !.bits = changed]
  BY DEF ChangeField
<1> DEFINE s == SelectedField(f, i)
<1>3. PICK v \in ChangedValues(f, bits, s) :
        /\ Valid(f, WithBits(bits, Offset(f, s), v), uses)
        /\ drawn' = [drawn EXCEPT !.bits = WithBits(bits, Offset(f, s), v)]
  BY <1>2
<1> DEFINE changed == WithBits(bits, Offset(f, s), v)
<1>4. drawn \in [form : Forms, field : Nat, bits : Seq(Concrete)] /\ Legal(f, bits)
  BY <1>1 DEF IInv, DrawingFits, EncodingInvariant, DrawnIsLegal
<1>5. f \in Forms /\ Matches(f, bits) /\ bits \in Seq(Concrete)
  BY <1>4 DEF Legal
<1>6. s \in DOMAIN FieldsOf(f) /\ FieldsOf(f)[s].name # ""
  BY <1>2, <1>5, SelectedIsEqual
<1>7. drawn' = [form |-> f, field |-> drawn.field, bits |-> changed] /\ Valid(f, changed, uses)
  BY <1>3, <1>4
<1>8. UsesFit(uses)
  BY UsesTyped DEF IInv, EncodingInvariant
<1>9. WidthOf(f) \in Nat /\ bits \in WordsOf[f] /\ WordsOf[f] = WordsOfWidth(WidthOf(f))
  <2>1. WidthOf(f) = Len(bits)
    BY <1>5 DEF Matches
  <2> QED BY <1>5, <2>1, OffsetsRise DEF WordsOf, WordsOfWidth
<1> HIDE DEF f, bits, s, changed
<1>10. v \in WordsOfWidth(SizeOf(f, s))
  BY <1>3, <1>5, <1>6, <1>8, <1>9, ChangedShape
<1>11. /\ changed \in WordsOf[f]
       /\ \A j \in DOMAIN FieldsOf(f) \ {s} : FieldBits(f, changed, j) = FieldBits(f, bits, j)
  BY <1>5, <1>6, <1>9, <1>10, WithBitsMean DEF changed
<1>12. ASSUME NEW j \in DOMAIN FieldsOf(f)
       PROVE  MatchesBits(FieldsOf(f)[j].pattern, FieldBits(f, changed, j))
  <2>1. CASE FieldsOf(f)[j].name = ""
    <3>1. FieldBits(f, changed, j) = FieldBits(f, bits, j)
      BY <1>6, <1>11, <2>1
    <3> QED BY <1>5, <3>1 DEF Matches
  <2>2. CASE FieldsOf(f)[j].name # ""
    <3>1. FieldBits(f, changed, j) \in WordsOfWidth(SizeOf(f, j)) /\ SizeOf(f, j) \in Nat
      BY ZenonT(40), <1>5, <1>9, <1>11, FieldsWithin, FieldBitsAre
    <3>2. FieldsOf(f)[j].pattern \in PatternsOf(SizeOf(f, j))
      BY <1>5, FieldShape DEF SizeOf
    <3> QED BY <1>5, <2>2, <3>1, <3>2, FieldOfName, MatchesMeans
  <2> QED BY <2>1, <2>2
<1>13. WidthOf(f) = Len(changed) /\ changed \in Seq(Concrete)
  BY <1>9, <1>11, WordShape
<1>14. Matches(f, changed)
  BY <1>7, <1>12, <1>13 DEF Matches, Valid
<1>15. TypeOK' /\ ProgramSupported' /\ ProgramDecodes'
  BY <1>1, <1>5, <1>7, CandidateKept
<1>16. drawn' \in [form : Forms, field : Nat, bits : Seq(Concrete)]
  BY <1>4, <1>5, <1>7, <1>13
<1>17. DrawingFits'
  BY <1>1, <1>16 DEF DrawingFits
<1>18. DrawnIsLegal'
  BY <1>1, <1>7, <1>14 DEF DrawnIsLegal, Legal
<1> QED BY <1>15, <1>17, <1>18 DEF IInv, EncodingInvariant

\* A word used leaves nothing to be said about it.
LEMMA UseDrawnKeeps ==
  ASSUME IInv, UseDrawn PROVE IInv'
<1>1. stage' = "ready" /\ UNCHANGED <<uses, forms, program>>
  BY DEF UseDrawn
<1>2. TypeOK' /\ ProgramSupported' /\ ProgramDecodes'
  BY <1>1, CandidateKept
<1> QED BY <1>1, <1>2 DEF IInv, EncodingInvariant, DrawnIsLegal, DrawingFits

\* Every step keeps the inductive invariant.
LEMMA StepKeeps == IInv /\ [Next]_vars => IInv'
<1> SUFFICES ASSUME IInv, [Next]_vars PROVE IInv'
  OBVIOUS
<1>1. CASE Observe
  BY <1>1, ObserveKeeps
<1>2. CASE MergeUses
  BY <1>2, MergeUsesKeeps
<1>3. CASE SelectForm
  BY <1>3, SelectFormKeeps
<1>4. CASE DrawField
  BY <1>4, DrawFieldKeeps
<1>5. CASE RetryField
  BY <1>5, StartOverKeeps DEF RetryField, Drawing
<1>6. CASE CheckDrawn
  BY <1>6, CheckDrawnKeeps
<1>7. CASE ChangeField
  BY <1>7, ChangeFieldKeeps
<1>8. CASE UseDrawn
  BY <1>8, UseDrawnKeeps
<1>9. CASE UNCHANGED vars
  BY <1>9 DEF vars, IInv, EncodingInvariant, TypeOK, ProgramSupported, Supports, Valid,
              DrawnIsLegal, Legal, DrawingFits, ProgramDecodes
<1> QED BY <1>1, <1>2, <1>3, <1>4, <1>5, <1>6, <1>7, <1>8, <1>9 DEF Next

\* In every state the domains hold, the candidate made from a program supports all of
\* it, and a drawn instruction is legal.
THEOREM EncodingInvariantHolds == Spec => []EncodingInvariant
<1>1. IInv => EncodingInvariant
  BY DEF IInv
<1> QED BY <1>1, Start, StepKeeps, PTL DEF Spec

(***************************************************************************)
(* Patterns and the check of words, and the hope of a retry.               *)
(***************************************************************************)

\* A word is in the patterns of a form exactly if the form's check accepts it.
LEMMA EncodedIsMatched ==
  ASSUME NEW u, UsesFit(u), NEW f \in Forms, Definite(f), NEW w \in Words
  PROVE  (\E e \in Encodings(f, u) : MatchesBits(e, w)) <=> LegalUnder(f, w, u)
<1>1. PICK g \in Forms : w \in WordsOf[g]
  BY DEF Words
<1>2. WidthOf(g) \in Nat /\ Len(w) = WidthOf(g) /\ WidthOf(f) \in Nat
      /\ WordsOf[g] = WordsOfWidth(WidthOf(g)) /\ WordsOf[f] = WordsOfWidth(WidthOf(f))
  BY <1>1, OffsetsRise, WordShape DEF WordsOf, WordsOfWidth
<1>3. CASE WidthOf(f) = WidthOf(g)
  BY <1>1, <1>2, <1>3, EncodingsAreExact DEF Matched
<1>4. CASE WidthOf(f) # WidthOf(g)
  <2>1. \A e \in Encodings(f, u) : Len(e) = WidthOf(f)
    BY <1>2, EncodingsMean, PatternShape
  <2> QED BY <1>2, <1>4, <2>1 DEF MatchesBits, LegalUnder, Matches
<1> QED BY <1>3, <1>4

\* Without ambiguity a word decodes to the form that it matches.
LEMMA DecodesToForm ==
  ASSUME Unambiguous, NEW f \in Forms, NEW w \in Words, Matches(f, w)
  PROVE  Decodings[w] # {} /\ Decode(w) = f
<1>1. PICK n \in DOMAIN Instructions : \E k \in DOMAIN Instructions[n] : f = <<n, k>>
  BY DEF Forms
<1>2. PICK k \in DOMAIN Instructions[n] : f = <<n, k>>
  BY <1>1
<1>3. f \in FindMatch(n, w)
  BY <1>2 DEF FindMatch
<1>4. \A g \in FindMatch(n, w) : g \in Forms /\ Matches(g, w)
  BY DEF FindMatch, Forms
<1>5. FindMatch(n, w) = {f}
  BY <1>3, <1>4 DEF Unambiguous
<1>6. Cardinality(FindMatch(n, w)) = 1
  BY <1>5, FS_Singleton
<1>7. n \in Decodings[w]
  BY <1>6 DEF Decodings
<1>8. Decode(w) \in Forms /\ Matches(Decode(w), w)
  BY <1>7, DecodeMeans
<1> QED BY <1>7, <1>8 DEF Unambiguous

\* The patterns are exact in every state of the right types.
LEMMA ExactWhenTyped ==
  ASSUME Unambiguous, AllowedAreDefinite, TypeOK
  PROVE  PatternsAreExact
<1>1. UsesFit(uses)
  BY UsesTyped
<1>2. EncodingsAreLegalWords
  <2>1. ASSUME NEW f \in Forms, Definite(f), NEW w \in WordsOf[f]
        PROVE  (\E e \in Encodings(f, uses) : MatchesBits(e, w)) <=> Legal(f, w)
    BY <1>1, <2>1, EncodingsAreExact DEF Matched, Legal, LegalUnder
  <2> QED BY <2>1 DEF EncodingsAreLegalWords, LegalWords
<1>3. ASSUME NEW w \in Words
      PROVE  (\E e \in AllowPatterns(uses, forms) : MatchesBits(e, w))
               <=> /\ Decodings[w] # {}
                   /\ Supports(uses, forms, Decode(w), w)
                   /\ ~FormOf(Decode(w)).excluded
  <2>1. forms \subseteq Forms
    BY DEF TypeOK
  <2>2. ASSUME NEW e \in AllowPatterns(uses, forms), MatchesBits(e, w)
        PROVE  /\ Decodings[w] # {}
               /\ Supports(uses, forms, Decode(w), w)
               /\ ~FormOf(Decode(w)).excluded
    <3>1. PICK f \in forms : ~FormOf(f).excluded /\ e \in Encodings(f, uses)
      BY <2>2 DEF AllowPatterns
    <3>2. f \in Forms /\ Definite(f)
      BY <2>1, <3>1 DEF AllowedAreDefinite
    <3>3. LegalUnder(f, w, uses)
      BY <1>1, <2>2, <3>1, <3>2, EncodedIsMatched
    <3>4. Decodings[w] # {} /\ Decode(w) = f
      BY <3>2, <3>3, DecodesToForm DEF LegalUnder
    <3> QED BY <3>1, <3>3, <3>4 DEF Supports, LegalUnder
  <2>3. ASSUME Decodings[w] # {}, Supports(uses, forms, Decode(w), w), ~FormOf(Decode(w)).excluded
        PROVE  \E e \in AllowPatterns(uses, forms) : MatchesBits(e, w)
    <3> DEFINE f == Decode(w)
    <3>1. f \in Forms /\ f \in forms /\ LegalUnder(f, w, uses) /\ Definite(f)
      BY <2>3, DecodeMeans DEF Supports, LegalUnder, AllowedAreDefinite
    <3> HIDE DEF f
    <3>2. PICK e \in Encodings(f, uses) : MatchesBits(e, w)
      BY <1>1, <3>1, EncodedIsMatched
    <3>3. e \in AllowPatterns(uses, forms)
      BY <2>3, <3>1, <3>2 DEF AllowPatterns, f
    <3> QED BY <3>2, <3>3
  <2> QED BY <2>2, <2>3
<1> QED BY <1>2, <1>3 DEF PatternsAreExact, AllowedIsSupported

\* When no word is of two forms, what the patterns of a candidate allow is what its
\* check of words accepts, for every form and for GreenThumb's restrictions.
THEOREM PatternsAreExactHolds ==
  ASSUME Unambiguous, AllowedAreDefinite
  PROVE  Spec => []PatternsAreExact
<1>1. TypeOK => PatternsAreExact
  BY ExactWhenTyped
<1>2. IInv => TypeOK
  BY DEF IInv, EncodingInvariant
<1> QED BY <1>1, <1>2, Start, StepKeeps, PTL DEF Spec

\* A form without an encoding counts nothing.
LEMMA NothingToCount ==
  ASSUME NEW f, NEW u, Encodings(f, u) = {}
  PROVE  LegalCount(f, u) = 0
<1> DEFINE Body(g) == [s \in SUBSET {} |->
                         IF s = {} THEN 0
                         ELSE LET x == CHOOSE y \in s : TRUE
                              IN  2 ^ Cardinality({i \in DOMAIN x : x[i] = "x"}) + g[s \ {x}]]
           iter == CHOOSE g : g = Body(g)
<1>1. \E g : g = Body(g)
  <2> DEFINE zero == [s \in SUBSET {} |-> 0]
  <2>1. zero = Body(zero)
    OBVIOUS
  <2> QED BY <2>1
<1>2. iter = Body(iter)
  <2> HIDE DEF Body
  <2> QED BY <1>1
<1>3. iter[{}] = 0
  <2> HIDE DEF iter
  <2>1. \A g : Body(g)[{}] = 0
    OBVIOUS
  <2> HIDE DEF Body
  <2> QED BY <1>2, <2>1
<1>4. LegalCount(f, u) = iter[{}]
  BY Zenon DEF LegalCount, MapThenSumSet, MapThenFoldSet
<1> QED BY <1>3, <1>4

\* Whenever an instruction is to be drawn, its form has a legal word: what starts over
\* can end.
THEOREM SelectedCanFinishHolds == Spec => []SelectedCanFinish
<1>1. IInv => SelectedCanFinish
  <2> SUFFICES ASSUME IInv, stage = "draw", Definite(drawn.form)
               PROVE  \E w \in WordsOf[drawn.form] : Legal(drawn.form, w)
    BY DEF SelectedCanFinish
  <2> DEFINE f == drawn.form
  <2>1. f \in Forms /\ LegalCount(f, uses) > 0 /\ UsesFit(uses)
    BY UsesTyped DEF IInv, EncodingInvariant, DrawingFits
  <2> HIDE DEF f
  <2>2. PICK e \in Encodings(f, uses) : TRUE
    BY <2>1, NothingToCount
  <2>3. WidthOf(f) \in Nat /\ e \in PatternsOf(WidthOf(f)) /\ WordsOf[f] = WordsOfWidth(WidthOf(f))
    BY <2>1, EncodingsMean, OffsetsRise DEF WordsOf, WordsOfWidth
  <2> DEFINE w == [k \in 1 .. WidthOf(f) |-> IF e[k] = "x" THEN "0" ELSE e[k]]
  <2>4. w \in WordsOfWidth(WidthOf(f))
    BY <2>3 DEF WordsOfWidth, PatternsOf, Bit, Concrete
  <2>5. \A k \in 1 .. WidthOf(f) : e[k] = "x" \/ e[k] = w[k]
    OBVIOUS
  <2> HIDE DEF w
  <2>6. MatchesBits(e, w)
    BY <2>3, <2>4, <2>5, MatchesMeans
  <2>7. Matched(Encodings(f, uses), w) /\ Definite(f)
    BY <2>6 DEF Matched, f
  <2>8. LegalUnder(f, w, uses)
    BY <2>1, <2>3, <2>4, <2>7, EncodingsAreExact
  <2> QED BY <2>3, <2>4, <2>8 DEF Legal, LegalUnder, f
<1> QED BY <1>1, Start, StepKeeps, PTL DEF Spec
==============================================================================
