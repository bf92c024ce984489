------------------------- MODULE IsaOptimizationProofs -------------------------
(***************************************************************************)
(* What the genetic search keeps, for every ISA, every program, every      *)
(* population and every number of generations.                             *)
(***************************************************************************)
EXTENDS IsaOptimization, Recursion, FiniteSetTheorems, SequenceTheorems

(***************************************************************************)
(* Candidates that allow more.                                             *)
(***************************************************************************)

\* d allows whatever c does.
Allows(d, c) == c.forms \subseteq d.forms /\ \A f \in Fields : c.uses[f] \subseteq d.uses[f]

\* A form has an encoding when each of its fields has a value.
LEMMA EncodingNeedsValues ==
  ASSUME NEW form \in Forms, NEW uses \in [Fields -> SUBSET Bit]
  PROVE  (EncodingsOf(form, uses) # {}) <=> (\A f \in FieldsOf[form] : uses[f] # {})
<1>1. ASSUME \A f \in FieldsOf[form] : uses[f] # {} PROVE EncodingsOf(form, uses) # {}
  <2> DEFINE a == [f \in FieldsOf[form] |-> CHOOSE v \in uses[f] : TRUE]
  <2>1. FieldsOf[form] \subseteq Fields
    BY IsaAssumption
  <2>2. a \in [FieldsOf[form] -> Bit] /\ \A f \in FieldsOf[form] : a[f] \in uses[f]
    BY <1>1, <2>1
  <2>3. <<form, a>> \in EncodingsOf(form, uses)
    BY <2>2 DEF EncodingsOf
  <2> QED BY <2>3
<1>2. ASSUME EncodingsOf(form, uses) # {} PROVE \A f \in FieldsOf[form] : uses[f] # {}
  BY <1>2 DEF EncodingsOf
<1> QED BY <1>1, <1>2

\* What a candidate allows stays allowed in one that allows more.
LEMMA AllowsKeeps ==
  ASSUME NEW c \in Candidates, NEW d \in Candidates, Allows(d, c)
  PROVE  /\ \A form \in Forms : HasEncoding(c, form) => HasEncoding(d, form)
         /\ \A i \in DecodedInstructions : Supports(c, i) => Supports(d, i)
<1>1. /\ c.uses \in [Fields -> SUBSET Bit] /\ d.uses \in [Fields -> SUBSET Bit]
      /\ \A form \in Forms : FieldsOf[form] \subseteq Fields
  BY IsaAssumption DEF Candidates
<1>2. ASSUME NEW form \in Forms, HasEncoding(c, form) PROVE HasEncoding(d, form)
  BY <1>1, <1>2, EncodingNeedsValues DEF HasEncoding, Allows
<1>3. ASSUME NEW i \in DecodedInstructions, Supports(c, i) PROVE Supports(d, i)
  <2>1. i.form \in Forms
    BY DEF DecodedInstructions
  <2> QED BY <1>1, <1>3, <2>1 DEF Supports, Allows
<1> QED BY <1>2, <1>3

\* Allowing is transitive.
LEMMA AllowsTransitive ==
  ASSUME NEW c, NEW d, NEW e, Allows(d, c), Allows(e, d)
  PROVE  Allows(e, c)
BY DEF Allows

(***************************************************************************)
(* Repairs.                                                                *)
(***************************************************************************)

\* A repaired form has an encoding, and nothing is lost.
LEMMA RepairFormWorks ==
  ASSUME NEW c \in Candidates, NEW form \in Forms
  PROVE  /\ RepairForm(c, form) \in Candidates
         /\ Allows(RepairForm(c, form), c)
         /\ HasEncoding(RepairForm(c, form), form)
<1> DEFINE d == RepairForm(c, form)
<1>1. d \in Candidates /\ Allows(d, c)
  BY DEF RepairForm, Candidates, Allows, Bit
<1>2. d.uses \in [Fields -> SUBSET Bit] /\ form \in d.forms /\ FieldsOf[form] \subseteq Fields
  BY <1>1, IsaAssumption DEF Candidates, RepairForm
<1>3. \A f \in FieldsOf[form] : 0 \in d.uses[f]
  BY <1>2 DEF RepairForm
<1>4. EncodingsOf(form, d.uses) # {}
  BY <1>2, <1>3, EncodingNeedsValues
<1> QED BY <1>1, <1>2, <1>4 DEF HasEncoding

\* A candidate allows what it allows.
LEMMA AllowsItself ==
  ASSUME NEW c PROVE Allows(c, c)
BY DEF Allows

\* Adding a form leaves it an encoding and takes nothing away.
LEMMA RepairIfEmptyWorks ==
  ASSUME NEW c \in Candidates, NEW form \in Forms
  PROVE  /\ RepairIfEmpty(c, form) \in Candidates
         /\ Allows(RepairIfEmpty(c, form), c)
         /\ HasEncoding(RepairIfEmpty(c, form), form)
BY RepairFormWorks, AllowsItself DEF RepairIfEmpty

\* Adding any form of an instruction does so for the instruction.
LEMMA RepairAnyWorks ==
  ASSUME NEW c \in Candidates, NEW n \in DOMAIN Instructions
  PROVE  /\ RepairAny(c, n) \in Candidates
         /\ Allows(RepairAny(c, n), c)
         /\ \E form \in FormsOf(n) : HasEncoding(RepairAny(c, n), form)
<1>1. CASE \E form \in FormsOf(n) : HasEncoding(c, form)
  <2>1. RepairAny(c, n) = c
    BY <1>1 DEF RepairAny
  <2> QED BY <1>1, <2>1, AllowsItself
<1>2. CASE ~ \E form \in FormsOf(n) : HasEncoding(c, form)
  <2> DEFINE active == {k \in DOMAIN Instructions[n] : Instructions[n][k] \in c.forms}
             first == IF active = {} THEN 1 ELSE Min(active)
             form == Instructions[n][first]
  <2>1. Instructions[n] \in Seq(Forms) /\ Instructions[n] # <<>>
    BY IsaAssumption
  <2>2. first \in DOMAIN Instructions[n]
    <3>1. CASE active = {}
      BY <2>1, <3>1
    <3>2. CASE active # {}
      <4>1. active \in SUBSET Nat
        BY <2>1
      <4>2. \E m \in active : \A k \in active : m <= k
        BY <4>1, <3>2, LeastNatural
      <4> QED BY <3>2, <4>2 DEF Min
    <3> QED BY <3>1, <3>2
  <2>3. form \in FormsOf(n) /\ form \in Forms
    <3> HIDE DEF first
    <3> QED BY <2>1, <2>2 DEF FormsOf
  <2>4. RepairAny(c, n) = RepairForm(c, form)
    BY <1>2 DEF RepairAny
  <2> HIDE DEF form
  <2> QED BY <2>3, <2>4, RepairFormWorks
<1> QED BY <1>1, <1>2

\* Every mandatory form of an instruction has an encoding in the end, whatever the
\* order: a later repair takes nothing away.
LEMMA RepairMandatoryWorks ==
  ASSUME NEW c \in Candidates, NEW n \in DOMAIN Mandatory
  PROVE  /\ RepairMandatory(c, n) \in Candidates
         /\ Allows(RepairMandatory(c, n), c)
         /\ \A form \in Mandatory[n] : HasEncoding(RepairMandatory(c, n), form)
<1> DEFINE m == Cardinality(Mandatory[n])
           order == SetToSeq(Mandatory[n])
           Body(g) == [k \in 0 .. m |-> IF k = 0 THEN c ELSE RepairIfEmpty(g[k - 1], order[k])]
           after == CHOOSE g : g = Body(g)
           step == [k \in 1 .. m |-> [d \in Candidates |-> RepairIfEmpty(d, order[k])]]
<1>1. Mandatory[n] \subseteq Forms /\ IsFiniteSet(Mandatory[n])
  BY IsaAssumption, FS_Subset
<1>2. /\ m \in Nat /\ order \in [1 .. m -> Mandatory[n]]
      /\ \A form \in Mandatory[n] : \E k \in 1 .. m : order[k] = form
  BY <1>1, FS_CardinalityType, SetToSeqComplete
<1>3. \A k \in 1 .. m : order[k] \in Forms
  BY <1>1, <1>2
<1>4. after = Body(after)
  <2>1. step \in [1 .. m -> [Candidates -> Candidates]]
    BY <1>3, RepairIfEmptyWorks
  <2> HIDE DEF step, order, m
  <2>2. PICK f \in [0 .. m -> Candidates] : Follows(f, m, c, step)
    BY <1>2, <2>1, RecursionExists
  <2>3. f[0] = c /\ \A k \in 1 .. m : f[k] = RepairIfEmpty(f[k - 1], order[k])
    <3>1. \A k \in 1 .. m : k - 1 \in 0 .. m
      BY <1>2
    <3> QED BY <2>2, <3>1 DEF Follows, step
  <2>4. f = Body(f)
    BY <1>2, <2>3
  <2> HIDE DEF Body
  <2> QED BY <2>4
<1>5. after[0] = c /\ \A k \in 1 .. m : after[k] = RepairIfEmpty(after[k - 1], order[k])
  <2> HIDE DEF after, order, m
  <2> QED BY <1>2, <1>4
<1>6. RepairMandatory(c, n) = after[m]
  BY DEF RepairMandatory
<1> DEFINE Good == {k \in 0 .. m : /\ after[k] \in Candidates /\ Allows(after[k], c)
                                  /\ \A j \in 1 .. k : HasEncoding(after[k], order[j])}
<1> HIDE DEF after, order, m
<1>7. 0 \in Good
  BY <1>2, <1>5, AllowsItself
<1>8. \A k \in 0 .. m - 1 : k \in Good => k + 1 \in Good
  <2> SUFFICES ASSUME NEW k \in 0 .. m - 1, k \in Good PROVE k + 1 \in Good
    OBVIOUS
  <2>1. /\ k + 1 \in 1 .. m /\ k + 1 \in 0 .. m
        /\ after[k + 1] = RepairIfEmpty(after[k], order[k + 1])
    BY <1>2, <1>5
  <2>2. /\ after[k + 1] \in Candidates /\ Allows(after[k + 1], after[k])
        /\ HasEncoding(after[k + 1], order[k + 1])
    BY <2>1, <1>3, RepairIfEmptyWorks
  <2>3. Allows(after[k + 1], c)
    BY <2>2, AllowsTransitive
  <2>4. \A j \in 1 .. k : HasEncoding(after[k + 1], order[j])
    BY <1>2, <1>3, <2>2, AllowsKeeps
  <2>5. \A j \in 1 .. k + 1 : j \in 1 .. k \/ j = k + 1
    BY <1>2
  <2> QED BY <2>1, <2>2, <2>3, <2>4, <2>5
<1>9. m \in Good
  <2> HIDE DEF Good
  <2>1. 0 .. m \subseteq Good
    BY <1>2, <1>7, <1>8, Counting
  <2> QED BY <1>2, <2>1
<1> QED BY <1>2, <1>6, <1>9

\* The requirement of mandatory_forms on one instruction.
KeptAt(c, n) ==
  /\ \A form \in Mandatory[n] : HasEncoding(c, form)
  /\ \E form \in FormsOf(n) : HasEncoding(c, form)

\* A candidate that allows more keeps a mandatory instruction too.
LEMMA KeptAtKeeps ==
  ASSUME NEW c \in Candidates, NEW d \in Candidates, Allows(d, c),
         NEW n \in DOMAIN Mandatory, KeptAt(c, n)
  PROVE  KeptAt(d, n)
<1>1. Mandatory[n] \subseteq Forms /\ FormsOf(n) \subseteq Forms
  BY IsaAssumption
<1> QED BY <1>1, AllowsKeeps DEF KeptAt

\* The repairs leave every mandatory form with an encoding and take nothing away.
LEMMA RepairedWorks ==
  ASSUME NEW c \in Candidates
  PROVE  Repaired(c) \in Candidates /\ Allows(Repaired(c), c) /\ MandatoryKept(Repaired(c))
<1> DEFINE m == Len(Instructions)
           Repair(d, n) == IF n \notin DOMAIN Mandatory THEN d
                           ELSE IF Mandatory[n] = {} THEN RepairAny(d, n)
                           ELSE RepairMandatory(d, n)
           Body(g) == [n \in 0 .. m |-> IF n = 0 THEN c ELSE Repair(g[n - 1], n)]
           after == CHOOSE g : g = Body(g)
           step == [n \in 1 .. m |-> [d \in Candidates |-> Repair(d, n)]]
<1>1. m \in Nat /\ DOMAIN Instructions = 1 .. m /\ DOMAIN Mandatory \subseteq 1 .. m
  BY IsaAssumption
<1>2. ASSUME NEW d \in Candidates, NEW n \in 1 .. m
      PROVE  /\ Repair(d, n) \in Candidates /\ Allows(Repair(d, n), d)
             /\ n \in DOMAIN Mandatory => KeptAt(Repair(d, n), n)
  <2>1. CASE n \notin DOMAIN Mandatory
    BY <2>1, AllowsItself
  <2>2. CASE n \in DOMAIN Mandatory /\ Mandatory[n] = {}
    BY <1>1, <2>2, RepairAnyWorks DEF KeptAt
  <2>3. CASE n \in DOMAIN Mandatory /\ Mandatory[n] # {}
    <3>1. Mandatory[n] \subseteq FormsOf(n)
      BY <2>3, IsaAssumption
    <3> QED BY <2>3, <3>1, RepairMandatoryWorks DEF KeptAt
  <2> QED BY <2>1, <2>2, <2>3
<1>3. after = Body(after)
  <2>1. step \in [1 .. m -> [Candidates -> Candidates]]
    BY <1>2
  <2> HIDE DEF step, m, Repair
  <2>2. PICK f \in [0 .. m -> Candidates] : Follows(f, m, c, step)
    BY <1>1, <2>1, RecursionExists
  <2>3. f[0] = c /\ \A n \in 1 .. m : f[n] = Repair(f[n - 1], n)
    <3>1. \A n \in 1 .. m : n - 1 \in 0 .. m
      BY <1>1
    <3> QED BY <2>2, <3>1 DEF Follows, step
  <2>4. f = Body(f)
    BY <1>1, <2>3
  <2> HIDE DEF Body
  <2> QED BY <2>4
<1>4. after[0] = c /\ \A n \in 1 .. m : after[n] = Repair(after[n - 1], n)
  <2> HIDE DEF after, m, Repair
  <2> QED BY <1>1, <1>3
<1>5. Repaired(c) = after[m]
  BY DEF Repaired
<1> DEFINE Good == {k \in 0 .. m : /\ after[k] \in Candidates /\ Allows(after[k], c)
                                  /\ \A n \in 1 .. k : n \in DOMAIN Mandatory => KeptAt(after[k], n)}
<1> HIDE DEF after, m, Repair
<1>6. 0 \in Good
  BY <1>1, <1>4, AllowsItself
<1>7. \A k \in 0 .. m - 1 : k \in Good => k + 1 \in Good
  <2> SUFFICES ASSUME NEW k \in 0 .. m - 1, k \in Good PROVE k + 1 \in Good
    OBVIOUS
  <2>1. /\ k + 1 \in 1 .. m /\ k + 1 \in 0 .. m
        /\ after[k + 1] = Repair(after[k], k + 1)
    BY <1>1, <1>4
  <2>2. /\ after[k + 1] \in Candidates /\ Allows(after[k + 1], after[k])
        /\ k + 1 \in DOMAIN Mandatory => KeptAt(after[k + 1], k + 1)
    BY <2>1, <1>2
  <2>3. Allows(after[k + 1], c)
    BY <2>2, AllowsTransitive
  <2>4. \A n \in 1 .. k : n \in DOMAIN Mandatory => KeptAt(after[k + 1], n)
    BY <2>2, KeptAtKeeps
  <2>5. \A n \in 1 .. k + 1 : n \in 1 .. k \/ n = k + 1
    BY <1>1
  <2> QED BY <2>1, <2>2, <2>3, <2>4, <2>5
<1>8. m \in Good
  <2> HIDE DEF Good
  <2>1. 0 .. m \subseteq Good
    BY <1>1, <1>6, <1>7, Counting
  <2> QED BY <1>1, <2>1
<1> QED BY <1>1, <1>5, <1>8 DEF MandatoryKept, KeptAt

(***************************************************************************)
(* The seeds.                                                              *)
(***************************************************************************)

\* Restoring takes nothing away, and has every encoding of the unrestricted forms.
LEMMA RestoredWorks ==
  ASSUME NEW c \in Candidates
  PROVE  /\ Restored(c) \in Candidates /\ Allows(Restored(c), c)
         /\ Unrestricted \subseteq Restored(c).forms
         /\ \A f \in UnrestrictedFields : Restored(c).uses[f] = Bit
<1>1. UnrestrictedFields \subseteq Fields /\ Unrestricted \subseteq Forms
  BY IsaAssumption DEF UnrestrictedFields
<1> QED BY <1>1 DEF Restored, Candidates, Allows, MaxUses, Bit

\* Fields that are not selected have all their values.
LEMMA UnmutatableWorks ==
  ASSUME NEW c \in Candidates
  PROVE  /\ WithUnmutatable(c) \in Candidates /\ Allows(WithUnmutatable(c), c)
         /\ \A f \in Fields \ Selectable : WithUnmutatable(c).uses[f] = Bit
BY DEF WithUnmutatable, Candidates, Allows, Bit

\* Whole fields make whole forms.
LEMMA WholeUnrestricted ==
  ASSUME NEW c \in Candidates, Unrestricted \subseteq c.forms,
         \A f \in UnrestrictedFields : c.uses[f] = Bit
  PROVE  UnrestrictedKept(c)
<1> SUFFICES ASSUME NEW form \in Unrestricted
             PROVE  EncodingsOf(form, c.uses) = EncodingsOf(form, MaxUses)
  BY DEF UnrestrictedKept
<1>1. \A f \in FieldsOf[form] : c.uses[f] = Bit /\ MaxUses[f] = Bit
  BY IsaAssumption DEF UnrestrictedFields, MaxUses
<1> QED BY <1>1 DEF EncodingsOf

(***************************************************************************)
(* Fitness.                                                                *)
(***************************************************************************)

\* There are finitely many encodings.
LEMMA EncodingsFinite == IsFiniteSet(Encodings(MaxIsa))
<1> DEFINE Of(form) == EncodingsOf(form, MaxUses)
           all == {Of(form) : form \in Forms}
<1>1. ASSUME NEW form \in Forms PROVE IsFiniteSet(Of(form))
  <2> DEFINE F == FieldsOf[form]
             Flags == [s \in SUBSET F |-> <<form, [f \in F |-> IF f \in s THEN 1 ELSE 0]>>]
  <2>1. F \subseteq Fields
    BY IsaAssumption
  <2>2. IsFiniteSet(SUBSET F)
    BY <2>1, IsaAssumption, FS_Subset, FS_SUBSET
  <2>3. \A f \in F : MaxUses[f] = Bit
    BY <2>1 DEF MaxUses
  <2>4. Flags \in [SUBSET F -> Of(form)]
    BY <2>3 DEF EncodingsOf, Bit
  <2>5. ASSUME NEW x \in Of(form) PROVE \E s \in SUBSET F : Flags[s] = x
    <3>1. PICK a \in [F -> Bit] : x = <<form, a>>
      BY DEF EncodingsOf
    <3> DEFINE s == {f \in F : a[f] = 1}
    <3>2. a = [f \in F |-> IF f \in s THEN 1 ELSE 0]
      BY DEF Bit
    <3> QED BY <3>1, <3>2
  <2>6. Flags \in Surjection(SUBSET F, Of(form))
    BY <2>4, <2>5 DEF Surjection
  <2> HIDE DEF Flags, Of
  <2> QED BY <2>2, <2>6, FS_Surjection
<1>2. IsFiniteSet(all)
  <2> DEFINE each == [form \in Forms |-> Of(form)]
  <2>1. each \in Surjection(Forms, all)
    BY DEF Surjection
  <2> HIDE DEF each, all
  <2> QED BY <2>1, IsaAssumption, FS_Surjection
<1>3. IsFiniteSet(UNION all)
  <2> HIDE DEF Of
  <2> QED BY <1>1, <1>2, FS_UNION
<1>4. Encodings(MaxIsa) = UNION all
  BY DEF Encodings, MaxIsa
<1> QED BY <1>3, <1>4

\* Every instruction of a program is an encoding of the largest candidate.
LEMMA ProgramTyped ==
  ASSUME program \in GivenPrograms
  PROVE  /\ Len(program) \in Nat \ {0} /\ DOMAIN program = 1 .. Len(program)
         /\ \A k \in DOMAIN program :
              /\ program[k] \in DecodedInstructions
              /\ program[k].form \in Forms
              /\ program[k].value \in [FieldsOf[program[k].form] -> Bit]
<1>1. program \in Seq(DecodedInstructions) /\ program # <<>>
  BY ProgramsAssumption
<1>2. \A i \in DecodedInstructions : i.form \in Forms /\ i.value \in [FieldsOf[i.form] -> Bit]
  BY DEF DecodedInstructions
<1> QED BY <1>1, <1>2

\* A candidate supports what it has the encoding of, and no candidate has an
\* encoding that the largest one lacks.
LEMMA EncodingsAreSupported ==
  ASSUME NEW c \in Candidates
  PROVE  /\ Encodings(c) \subseteq Encodings(MaxIsa)
         /\ \A i \in DecodedInstructions : <<i.form, i.value>> \in Encodings(MaxIsa)
         /\ \A i \in DecodedInstructions : <<i.form, i.value>> \in Encodings(c) => Supports(c, i)
<1>1. /\ c.forms \subseteq Forms /\ c.uses \in [Fields -> SUBSET Bit]
      /\ \A form \in Forms : FieldsOf[form] \subseteq Fields
  BY IsaAssumption DEF Candidates
<1>2. \A f \in Fields : MaxUses[f] = Bit /\ c.uses[f] \subseteq MaxUses[f]
  BY <1>1 DEF MaxUses
<1>3. Encodings(c) \subseteq Encodings(MaxIsa)
  BY <1>1, <1>2 DEF Encodings, EncodingsOf, MaxIsa
<1>4. ASSUME NEW i \in DecodedInstructions
      PROVE  i.form \in Forms /\ i.value \in [FieldsOf[i.form] -> Bit]
  BY DEF DecodedInstructions
<1>5. ASSUME NEW i \in DecodedInstructions PROVE <<i.form, i.value>> \in Encodings(MaxIsa)
  BY <1>1, <1>2, <1>4 DEF Encodings, EncodingsOf, MaxIsa
<1>6. ASSUME NEW i \in DecodedInstructions, <<i.form, i.value>> \in Encodings(c)
      PROVE  Supports(c, i)
  BY <1>6 DEF Encodings, EncodingsOf, Supports
<1> QED BY <1>3, <1>5, <1>6

\* No fitness is zero: a candidate that keeps every gate supports the program.  The
\* weights that set_candidate_fitnesses would put in place are never needed.
LEMMA FitnessPositive ==
  ASSUME program \in GivenPrograms, NEW c \in Candidates
  PROVE  Fitness(c) \in Nat \ {0}
<1> DEFINE all == Cardinality(Encodings(MaxIsa))
           some == Cardinality(Encodings(c))
           unsupported == {k \in DOMAIN program : ~Supports(c, program[k])}
<1>1. IsFiniteSet(Encodings(MaxIsa)) /\ Encodings(c) \subseteq Encodings(MaxIsa)
  BY EncodingsFinite, EncodingsAreSupported
<1>2. all \in Nat /\ some \in Nat /\ some <= all /\ (some = all => Encodings(c) = Encodings(MaxIsa))
  BY <1>1, FS_Subset, FS_CardinalityType
<1>3. Conflicts(c) \in 0 .. Len(program)
  <2>1. IsFiniteSet(DOMAIN program) /\ Cardinality(DOMAIN program) = Len(program)
    BY ProgramTyped, FS_Interval
  <2>2. unsupported \subseteq DOMAIN program
    OBVIOUS
  <2>3. Cardinality(unsupported) <= Len(program) /\ Cardinality(unsupported) \in Nat
    BY <2>1, <2>2, FS_Subset, FS_CardinalityType
  <2> QED BY <2>3, ProgramTyped DEF Conflicts
<1>4. CASE some = all
  <2>1. \A k \in DOMAIN program : Supports(c, program[k])
    BY <1>2, <1>4, ProgramTyped, EncodingsAreSupported
  <2>2. unsupported = {}
    BY <2>1
  <2>3. Conflicts(c) = 0
    BY <2>2, FS_EmptySet DEF Conflicts
  <2>4. all # 0
    <3>1. 1 \in DOMAIN program /\ program[1] \in DecodedInstructions
      BY ProgramTyped
    <3>2. <<program[1].form, program[1].value>> \in Encodings(MaxIsa)
      BY <3>1, EncodingsAreSupported
    <3> QED BY <1>1, <3>2, FS_EmptySet
  <2>5. all - some = 0 /\ 12 * 0 * Len(program) = 0
    BY <1>2, <1>4, ProgramTyped
  <2>6. Len(program) * all \in Nat \ {0}
    BY <1>2, <2>4, ProgramTyped
  <2> QED BY <2>3, <2>5, <2>6, ProgramTyped DEF Fitness, RemovedGates, TotalGates
<1>5. CASE some # all
  <2> DEFINE removed == all - some
             n == Len(program)
  <2>1. removed \in Nat \ {0} /\ n \in Nat \ {0}
    BY <1>2, <1>5, ProgramTyped
  <2>2. (n - Conflicts(c)) \in Nat
    BY <1>3, <2>1
  <2>3. Fitness(c) = 12 * removed * n + (n - Conflicts(c)) * all
    BY DEF Fitness, RemovedGates, TotalGates
  <2> HIDE DEF removed, n, all
  <2>4. (n - Conflicts(c)) * all \in Nat
    BY <1>2, <2>2
  <2>5. 12 * removed * n \in Nat \ {0}
    BY <2>1
  <2> QED BY <2>3, <2>4, <2>5
<1> QED BY <1>4, <1>5

(***************************************************************************)
(* Members: what everything in a generation has in common.                 *)
(***************************************************************************)

\* No field that the search leaves alone is restricted.
Whole(c) == \A f \in Fields \ Selectable : c.uses[f] = Bit

Members ==
  {c \in Candidates : /\ Whole(c) /\ Unrestricted \subseteq c.forms
                      /\ StaticInstructionsKept(c) /\ MandatoryKept(c)}

\* The caller fixes nothing, or only what the search leaves alone to all values.
FixedUsesAreWhole ==
  \A f \in DOMAIN FixedUses : f \in Fields \ Selectable /\ FixedUses[f] = Bit

\* Which fields those are.
LEMMA SelectableTyped ==
  /\ Selectable \subseteq Fields /\ RegisterFields \subseteq Fields \ Selectable
  /\ UnrestrictedFields \subseteq Fields \ Selectable
BY IsaAssumption DEF Selectable, UnrestrictedFields

\* A valid candidate that is whole is a member, and with nothing fixed a member is valid.
LEMMA MembersAreValid ==
  /\ \A c \in Candidates : Whole(c) /\ Valid(c) => c \in Members
  /\ FixedUsesAreWhole => \A c \in Members : Valid(c)
  /\ \A c \in Members : UnrestrictedKept(c)
<1>1. ASSUME NEW c \in Candidates, Whole(c), Valid(c) PROVE c \in Members
  BY <1>1 DEF Members, Valid, UnrestrictedKept
<1>2. ASSUME NEW c \in Members PROVE UnrestrictedKept(c)
  BY SelectableTyped, WholeUnrestricted DEF Members, Whole
<1>3. ASSUME FixedUsesAreWhole, NEW c \in Members PROVE Valid(c)
  BY <1>2, <1>3 DEF Valid, FixedUsesKept, Members, FixedUsesAreWhole, Whole
<1> QED BY <1>1, <1>2, <1>3

\* The candidates that the seeds are made of support the program.
LEMMA LargestSupports ==
  ASSUME program \in GivenPrograms
  PROVE  /\ MaxIsa \in Members
         /\ \A k \in DOMAIN program : Supports(MaxIsa, program[k])
<1>1. MaxIsa \in Candidates /\ \A f \in Fields : MaxIsa.uses[f] = Bit
  BY DEF MaxIsa, MaxUses, Candidates, Bit
<1>2. ASSUME NEW k \in DOMAIN program PROVE Supports(MaxIsa, program[k])
  <2>1. program[k] \in DecodedInstructions
    BY ProgramTyped
  <2> QED BY <1>1, <2>1, EncodingsAreSupported
<1>3. ASSUME NEW form \in Forms PROVE HasEncoding(MaxIsa, form)
  <2>1. FieldsOf[form] \subseteq Fields /\ MaxIsa.uses \in [Fields -> SUBSET Bit] /\ form \in MaxIsa.forms
    BY <1>1, IsaAssumption DEF Candidates, MaxIsa
  <2>2. \A f \in FieldsOf[form] : MaxIsa.uses[f] # {}
    BY <1>1, <2>1 DEF Bit
  <2> QED BY <2>1, <2>2, EncodingNeedsValues DEF HasEncoding
<1>4. MandatoryKept(MaxIsa)
  <2> SUFFICES ASSUME NEW n \in DOMAIN Mandatory PROVE KeptAt(MaxIsa, n)
    BY DEF MandatoryKept, KeptAt
  <2>1. FormsOf(n) \subseteq Forms /\ Mandatory[n] \subseteq FormsOf(n) /\ Instructions[n] # <<>>
        /\ n \in DOMAIN Instructions
    BY IsaAssumption
  <2>2. Instructions[n] \in Seq(Forms)
    BY <2>1, IsaAssumption
  <2>3. 1 \in DOMAIN Instructions[n]
    BY <2>1, <2>2
  <2>4. Instructions[n][1] \in FormsOf(n)
    BY <2>3 DEF FormsOf
  <2> QED BY <1>3, <2>1, <2>4 DEF KeptAt
<1>5. Unrestricted \subseteq MaxIsa.forms
  BY IsaAssumption DEF MaxIsa
<1> QED BY <1>1, <1>2, <1>4, <1>5 DEF Members, Whole, StaticInstructionsKept

\* The minimal ISA supports the program and keeps the promises.
LEMMA SmallestSupports ==
  ASSUME program \in GivenPrograms
  PROVE  /\ MinIsa \in Members
         /\ \A k \in DOMAIN program : Supports(MinIsa, program[k])
<1> DEFINE repaired == Repaired(Observed)
           restored == Restored(repaired)
<1>1. Observed \in Candidates /\ \A k \in DOMAIN program : Supports(Observed, program[k])
  <2>1. \A k \in DOMAIN program : \A f \in FieldsOf[program[k].form] : program[k].value[f] \in Bit
    BY ProgramTyped
  <2>2. Observed \in Candidates
    BY <2>1, ProgramTyped DEF Observed, Candidates
  <2>3. \A form \in Forms : FieldsOf[form] \subseteq Fields
    BY IsaAssumption
  <2>4. ASSUME NEW k \in DOMAIN program PROVE Supports(Observed, program[k])
    BY <2>3, ProgramTyped DEF Observed, Supports
  <2> QED BY <2>2, <2>4
<1>2. repaired \in Candidates /\ Allows(repaired, Observed) /\ MandatoryKept(repaired)
  BY <1>1, RepairedWorks
<1> HIDE DEF repaired
<1>3. restored \in Candidates /\ Allows(restored, repaired) /\ Unrestricted \subseteq restored.forms
  BY <1>2, RestoredWorks
<1> HIDE DEF restored
<1>4. MinIsa = WithUnmutatable(restored)
  BY DEF MinIsa, restored, repaired
<1>5. MinIsa \in Candidates /\ Allows(MinIsa, restored) /\ Whole(MinIsa)
  BY <1>3, <1>4, UnmutatableWorks DEF Whole
<1>6. Allows(MinIsa, repaired) /\ Allows(MinIsa, Observed)
  BY <1>2, <1>3, <1>5, AllowsTransitive
<1>7. MandatoryKept(MinIsa)
  <2> SUFFICES ASSUME NEW n \in DOMAIN Mandatory PROVE KeptAt(MinIsa, n)
    BY DEF MandatoryKept, KeptAt
  <2>1. KeptAt(repaired, n)
    BY <1>2 DEF MandatoryKept, KeptAt
  <2> QED BY <2>1, <1>2, <1>5, <1>6, KeptAtKeeps
<1>8. ASSUME NEW k \in DOMAIN program PROVE Supports(MinIsa, program[k])
  BY <1>1, <1>5, <1>6, ProgramTyped, AllowsKeeps
<1>9. Unrestricted \subseteq MinIsa.forms
  BY <1>3, <1>5 DEF Allows
<1> QED BY <1>5, <1>7, <1>8, <1>9 DEF Members, StaticInstructionsKept

\* "the minimum ISA which does not break any instructions"
LEMMA SeedsSupport ==
  ASSUME program \in GivenPrograms
  PROVE  /\ Seeds \in Seq(Members)
         /\ \A k \in DOMAIN Seeds : Conflicts(Seeds[k]) = 0
<1> DEFINE n == PopulationSize \div 3
           largest == [k \in 1 .. n |-> MaxIsa]
<1>1. n \in Nat
  BY IsaAssumption
<1> HIDE DEF n
<1>2. ASSUME NEW S, MaxIsa \in S, MinIsa \in S PROVE Seeds \in Seq(S)
  <2>1. largest \in Seq(S) /\ <<MinIsa, MinIsa>> \in Seq(S)
    BY <1>1, <1>2
  <2> QED BY <2>1 DEF Seeds, n
<1>3. Seeds \in Seq(Members)
  BY <1>2, LargestSupports, SmallestSupports
<1>4. Seeds \in Seq({MaxIsa, MinIsa})
  BY <1>2
<1>5. ASSUME NEW c \in {MaxIsa, MinIsa} PROVE Conflicts(c) = 0
  <2>1. {k \in DOMAIN program : ~Supports(c, program[k])} = {}
    BY LargestSupports, SmallestSupports
  <2> QED BY <2>1, FS_EmptySet DEF Conflicts
<1>6. \A k \in DOMAIN Seeds : Seeds[k] \in {MaxIsa, MinIsa}
  BY <1>4
<1> QED BY <1>3, <1>5, <1>6

(***************************************************************************)
(* Random candidates and children.                                         *)
(***************************************************************************)

\* A random candidate leaves them all their values.
LEMMA RandomIsWhole ==
  ASSUME NEW c \in RandomCandidates
  PROVE  c \in Candidates /\ Whole(c)
<1>1. PICK u \in [Selectable -> (SUBSET Bit) \ {{}}], g \in SUBSET (Forms \ Unrestricted) :
        c = [uses |-> [f \in Fields |-> IF f \in Selectable THEN u[f] ELSE Bit],
             forms |-> g \cup Unrestricted]
  BY DEF RandomCandidates
<1>2. \A f \in Selectable : u[f] \subseteq Bit
  BY <1>1
<1> QED BY <1>1, <1>2, IsaAssumption DEF Candidates, Whole

\* Restoring leaves the other fields as they are.
LEMMA RestoredIsWhole ==
  ASSUME NEW c \in Candidates, Whole(c)
  PROVE  Restored(c) \in Candidates /\ Whole(Restored(c))
BY RestoredWorks, SelectableTyped DEF Whole, Restored, MaxUses

\* So does a child of two that do.
LEMMA SwappedIsWhole ==
  ASSUME NEW a \in Candidates, NEW b \in Candidates, Whole(a), Whole(b),
         NEW fs \in SUBSET Selectable, NEW ns \in SUBSET DOMAIN Instructions
  PROVE  Swapped(a, b, fs, ns) \in Candidates /\ Whole(Swapped(a, b, fs, ns))
<1> DEFINE swappedForms == UNION {FormsOf(n) : n \in ns}
           child == [uses  |-> [f \in Fields |-> IF f \in fs THEN b.uses[f] ELSE a.uses[f]],
                     forms |-> (a.forms \ swappedForms) \cup (b.forms \cap swappedForms)]
<1>1. child \in Candidates /\ Whole(child)
  BY DEF Candidates, Whole
<1>2. Swapped(a, b, fs, ns) = Restored(child)
  BY DEF Swapped
<1> HIDE DEF child
<1> QED BY <1>1, <1>2, RestoredIsWhole

\* So do both children of a crossover.
LEMMA CrossoversAreWhole ==
  ASSUME NEW a \in Candidates, NEW b \in Candidates, Whole(a), Whole(b),
         NEW pair \in Crossovers(a, b)
  PROVE  pair[1] \in Candidates /\ Whole(pair[1]) /\ pair[2] \in Candidates /\ Whole(pair[2])
<1>1. CASE pair = <<a, b>>
  BY <1>1
<1>2. CASE pair # <<a, b>>
  <2>1. PICK fs \in SUBSET Selectable, ns \in SUBSET DOMAIN Instructions :
          pair = <<Swapped(a, b, fs, ns), Swapped(b, a, fs, ns)>>
    BY <1>2 DEF Crossovers
  <2> QED BY <2>1, SwappedIsWhole
<1> QED BY <1>1, <1>2

\* And a mutation.
LEMMA MutationsAreWhole ==
  ASSUME NEW c \in Candidates, Whole(c), NEW m \in Mutations(c)
  PROVE  m \in Candidates /\ Whole(m)
<1>1. PICK u \in {w \in [Selectable -> SUBSET Bit] :
                     \A f \in Selectable : w[f] \in FieldMutations(f, c.uses[f])},
           ns \in SUBSET DOMAIN Instructions,
           g \in SUBSET (Forms \ Unrestricted) :
        m = Mutated(c, u, ns, g)
  BY DEF Mutations
<1> DEFINE redrawn == UNION {FormsOf(n) : n \in ns}
           child == [uses  |-> [f \in Fields |-> IF f \in Selectable THEN u[f] ELSE c.uses[f]],
                     forms |-> (c.forms \ redrawn) \cup (g \cap redrawn)]
<1>2. child \in Candidates
  BY DEF Candidates
<1>3. Whole(child)
  BY DEF Whole
<1>4. m = Restored(child)
  BY <1>1 DEF Mutated
<1> HIDE DEF child
<1> QED BY <1>2, <1>3, <1>4, RestoredIsWhole

\* Children of members that pass the checks are members.
LEMMA BirthsAreMembers ==
  ASSUME NEW parents \in SUBSET Members, NEW children \in Births(parents)
  PROVE  children \in Seq(Members)
<1> DEFINE crossed == UNION {Crossovers(a, b) : a, b \in parents}
<1>1. PICK pair \in crossed : \E x \in BornOf(pair[1]), y \in BornOf(pair[2]) : children = x \o y
  <2> HIDE DEF crossed
  <2>1. children \in UNION {{x \o y : x \in BornOf(pair[1]), y \in BornOf(pair[2])} : pair \in crossed}
    BY SMTT(40) DEF Births, crossed
  <2> QED BY ONLY <2>1
<1>2. PICK a \in parents, b \in parents : pair \in Crossovers(a, b)
  BY ONLY <1>1 DEF crossed
<1>3. PICK x \in BornOf(pair[1]), y \in BornOf(pair[2]) : children = x \o y
  BY SMTT(40), <1>1
<1>4. pair[1] \in Candidates /\ Whole(pair[1]) /\ pair[2] \in Candidates /\ Whole(pair[2])
  BY <1>2, CrossoversAreWhole DEF Members
<1>5. ASSUME NEW c \in Candidates, Whole(c), NEW s \in BornOf(c) PROVE s \in Seq(Members)
  <2>1. PICK m \in Mutations(c) : s = IF Valid(m) THEN <<m>> ELSE <<>>
    BY <1>5 DEF BornOf
  <2>2. m \in Candidates /\ Whole(m)
    BY <1>5, <2>1, MutationsAreWhole
  <2>3. Valid(m) => m \in Members
    BY <2>2, MembersAreValid
  <2> QED BY <2>1, <2>3
<1>6. x \in Seq(Members) /\ y \in Seq(Members)
  BY <1>3, <1>4, <1>5
<1> QED BY <1>3, <1>6

(***************************************************************************)
(* Vectors of members and of their fitnesses.                              *)
(***************************************************************************)

\* The first n of a sequence.
LEMMA FirstOfWorks ==
  ASSUME NEW S, NEW s \in Seq(S), NEW n \in Nat
  PROVE  /\ FirstOf(s, n) \in Seq(S)
         /\ Len(FirstOf(s, n)) = IF n < Len(s) THEN n ELSE Len(s)
         /\ \A k \in 1 .. Len(FirstOf(s, n)) : k \in 1 .. Len(s) /\ FirstOf(s, n)[k] = s[k]
BY DEF FirstOf

\* The vector of fitnesses has one for each candidate, and none is 0.
LEMMA FitnessOfWorks ==
  ASSUME program \in GivenPrograms, NEW cs \in Seq(Candidates)
  PROVE  /\ FitnessOf(cs) \in Seq(Nat) /\ Len(FitnessOf(cs)) = Len(cs)
         /\ \A k \in 1 .. Len(cs) : FitnessOf(cs)[k] = Fitness(cs[k]) /\ FitnessOf(cs)[k] # 0
<1>1. \A k \in 1 .. Len(cs) : Fitness(cs[k]) \in Nat \ {0}
  BY FitnessPositive
<1> QED BY <1>1 DEF FitnessOf

\* A vector without 0 is recorded as it is.
LEMMA RecordedWorks ==
  ASSUME NEW fit \in Seq(Nat)
  PROVE  /\ Recorded(fit) \in Seq(Nat) /\ Len(Recorded(fit)) = Len(fit)
         /\ (\A k \in DOMAIN fit : fit[k] # 0) => Recorded(fit) = fit
<1>1. CASE \A k \in DOMAIN fit : fit[k] = 0
  <2>1. Recorded(fit) = [k \in 1 .. Len(fit) |-> 1]
    BY SMTT(40), <1>1 DEF Recorded
  <2>2. Recorded(fit) \in Seq(Nat) /\ Len(Recorded(fit)) = Len(fit)
    BY <2>1
  <2>3. (\A k \in DOMAIN fit : fit[k] # 0) => fit = <<>>
    BY <1>1
  <2>4. fit = <<>> => Recorded(fit) = fit
    BY <2>1
  <2> QED BY <2>2, <2>3, <2>4
<1>2. CASE ~ \A k \in DOMAIN fit : fit[k] = 0
  BY <1>2 DEF Recorded
<1> QED BY <1>1, <1>2

(***************************************************************************)
(* The domains and the promises, whatever is fixed.                        *)
(***************************************************************************)

\* The vectors that the search keeps hold members, and each fitness is of one.
VectorsKept ==
  /\ candidates \in Seq(Members) /\ next \in Seq(Members)
  /\ fitnesses \in Seq(Nat) /\ nextFitness \in Seq(Nat)
  /\ Len(fitnesses) <= Len(candidates)

\* A generation is complete when parents are selected from it, and while the first
\* one is filled the seeds are at its head.
PhaseKept ==
  /\ phase \in {"seed", "random", "select", "breed"}
  /\ generation \in 0 .. MaxGenerations
  /\ phase = "select" => Len(candidates) >= PopulationSize
  /\ phase = "breed" => generation < MaxGenerations
  /\ phase = "random" =>
       Len(Seeds) <= Len(next) /\ \A k \in 1 .. Len(Seeds) : next[k] = Seeds[k]

KeptInvariant == program \in GivenPrograms /\ VectorsKept /\ PhaseKept

\* The elites are indices of the fitnesses, and fewer than k fitnesses are above that
\* of the k-th.
LEMMA SortedWorks ==
  ASSUME NEW fit \in Seq(Nat)
  PROVE  /\ Sorted(fit) \in Seq(1 .. Len(fit)) /\ Len(Sorted(fit)) = Len(fit)
         /\ \A k \in 1 .. Len(fit) :
              Cardinality({j \in DOMAIN fit : fit[j] > fit[Sorted(fit)[k]]}) < k
<1> DEFINE n == Len(fit)
           Above(i) == {j \in 1 .. n : fit[j] > fit[i]}
           Tied(i) == {j \in 1 .. n : fit[j] = fit[i] /\ j < i}
           Ahead(i) == Above(i) \cup Tied(i)
           rank == [i \in 1 .. n |-> Rank(i, fit)]
<1>1. n \in Nat /\ DOMAIN fit = 1 .. n /\ \A i \in 1 .. n : fit[i] \in Nat
  OBVIOUS
<1>2. IsFiniteSet(1 .. n) /\ Cardinality(1 .. n) = n
  BY SMTT(40), <1>1, FS_Interval
<1> HIDE DEF n
<1>3. ASSUME NEW i \in 1 .. n
      PROVE  /\ IsFiniteSet(Ahead(i)) /\ Rank(i, fit) = Cardinality(Ahead(i))
             /\ Cardinality(Above(i)) \in Nat /\ Cardinality(Above(i)) <= Rank(i, fit)
             /\ Rank(i, fit) \in 0 .. n - 1
  <2>1. /\ IsFiniteSet(Above(i)) /\ IsFiniteSet(Tied(i))
        /\ Cardinality(Above(i)) \in Nat /\ Cardinality(Tied(i)) \in Nat
    BY <1>2, FS_Subset, FS_CardinalityType
  <2>2. Above(i) \cap Tied(i) = {}
    BY <1>1
  <2>3. IsFiniteSet(Ahead(i)) /\ Cardinality(Ahead(i)) = Cardinality(Above(i)) + Cardinality(Tied(i))
    <3> HIDE DEF Above, Tied
    <3>1. /\ IsFiniteSet(Above(i) \cup Tied(i))
          /\ Cardinality(Above(i) \cup Tied(i)) = Cardinality(Above(i)) + Cardinality(Tied(i))
                                                   - Cardinality(Above(i) \cap Tied(i))
      BY <2>1, FS_Union
    <3>2. Cardinality(Above(i) \cap Tied(i)) = 0
      BY <2>2, FS_EmptySet
    <3> QED BY <2>1, <3>1, <3>2
  <2>4. Rank(i, fit) = Cardinality(Above(i)) + Cardinality(Tied(i))
    BY <1>1 DEF Rank
  <2>5. Ahead(i) \subseteq 1 .. n /\ i \notin Ahead(i)
    BY <1>1
  <2>6. Cardinality(Ahead(i)) <= n /\ Cardinality(Ahead(i)) # n
    BY ZenonT(40), <1>2, <2>5, FS_Subset
  <2>7. \A c, d \in Nat : c + d <= n /\ c + d # n => c <= c + d /\ c + d \in 0 .. n - 1
    BY ONLY <1>1
  <2> QED BY ONLY <2>1, <2>3, <2>4, <2>6, <2>7
<1>4. ASSUME NEW i \in 1 .. n, NEW j \in 1 .. n, i \in Ahead(j) PROVE rank[i] < rank[j]
  <2>1. Ahead(i) \subseteq Ahead(j) /\ i \notin Ahead(i)
    BY SMTT(40), <1>1, <1>4
  <2>2. Cardinality(Ahead(i)) <= Cardinality(Ahead(j)) /\ Cardinality(Ahead(i)) # Cardinality(Ahead(j))
    BY <1>3, <1>4, <2>1, FS_Subset
  <2> HIDE DEF Ahead
  <2>3. Rank(i, fit) = Cardinality(Ahead(i)) /\ Rank(i, fit) \in 0 .. n - 1
    BY <1>3
  <2>4. Rank(j, fit) = Cardinality(Ahead(j)) /\ Rank(j, fit) \in 0 .. n - 1
    BY <1>3
  <2>5. Rank(i, fit) < Rank(j, fit)
    BY <1>1, <2>2, <2>3, <2>4
  <2> QED BY <2>5
<1>5. \A i, j \in 1 .. n : i # j => i \in Ahead(j) \/ j \in Ahead(i)
  BY <1>1
<1>6. rank \in [1 .. n -> 0 .. n - 1]
  BY <1>3
<1> HIDE DEF rank, Ahead, Above, Tied
<1>7. \A i, j \in 1 .. n : i # j => rank[i] # rank[j]
  <2> SUFFICES ASSUME NEW i \in 1 .. n, NEW j \in 1 .. n, i # j PROVE rank[i] # rank[j]
    OBVIOUS
  <2>1. rank[i] \in Int /\ rank[j] \in Int
    BY <1>1, <1>6
  <2>2. rank[i] < rank[j] \/ rank[j] < rank[i]
    BY <1>4, <1>5
  <2> QED BY <2>1, <2>2
<1>8. \A k \in 1 .. n : \E i \in 1 .. n : rank[i] = k - 1
  <2>1. rank \in Injection(1 .. n, 0 .. n - 1)
    BY <1>6, <1>7 DEF Injection, IsInjective
  <2>2. IsFiniteSet(0 .. n - 1) /\ Cardinality(0 .. n - 1) = n
    BY <1>1, FS_Interval
  <2>3. rank \in Surjection(1 .. n, 0 .. n - 1)
    BY <1>2, <2>1, <2>2, FS_Injection
  <2>4. \A k \in 1 .. n : k - 1 \in 0 .. n - 1
    BY <1>1
  <2> QED BY <2>3, <2>4 DEF Surjection
<1>9. \A k \in 1 .. n : Sorted(fit)[k] \in 1 .. n /\ Rank(Sorted(fit)[k], fit) = k - 1
  BY SMTT(40), <1>1, <1>8 DEF Sorted, rank
<1>10. Sorted(fit) \in Seq(1 .. n) /\ Len(Sorted(fit)) = n
  <2> DEFINE best(k) == CHOOSE i \in DOMAIN fit : Rank(i, fit) = k - 1
  <2>1. Sorted(fit) = [k \in 1 .. n |-> best(k)]
    BY <1>1 DEF Sorted
  <2> HIDE DEF best
  <2>2. \A k \in 1 .. n : best(k) \in 1 .. n
    BY <1>9, <2>1
  <2> QED BY <1>1, <2>1, <2>2
<1>11. ASSUME NEW k \in 1 .. n
       PROVE  Cardinality({j \in DOMAIN fit : fit[j] > fit[Sorted(fit)[k]]}) < k
  <2> DEFINE i == Sorted(fit)[k]
  <2>1. i \in 1 .. n /\ Rank(i, fit) = k - 1
    BY <1>9
  <2> HIDE DEF i
  <2>2. Cardinality(Above(i)) < k
    BY <1>1, <1>3, <2>1
  <2> QED BY <1>1, <2>2 DEF Above, i
<1> QED BY <1>10, <1>11 DEF n

\* Members and seeds depend on the program alone.
LEMMA SameProgram ==
  ASSUME program' = program
  PROVE  Members' = Members /\ Seeds' = Seeds
<1>1. \A c : StaticInstructionsKept(c)' = StaticInstructionsKept(c)
  BY DEF StaticInstructionsKept, Supports
<1>2. Members' = Members
  BY <1>1 DEF Members, Whole, MandatoryKept, HasEncoding
<1>3. Observed' = Observed
  BY DEF Observed
<1>4. Seeds' = Seeds
  BY <1>3 DEF Seeds, MinIsa, MaxIsa
<1> QED BY <1>2, <1>4

\* What SelectElites takes over is made of the old vectors.
LEMMA ElitesWork ==
  ASSUME NEW fit \in Seq(Nat)
  PROVE  /\ Elites(fit) \in Seq(1 .. Len(fit))
         /\ \A k \in 1 .. Len(Elites(fit)) :
              Cardinality({j \in DOMAIN fit : fit[j] > fit[Elites(fit)[k]]}) < k
<1>1. EliteCount \in Nat
  BY IsaAssumption
<1>2. Sorted(fit) \in Seq(1 .. Len(fit)) /\ Len(Sorted(fit)) = Len(fit)
  BY SortedWorks
<1>3. /\ Elites(fit) \in Seq(1 .. Len(fit))
      /\ \A k \in 1 .. Len(Elites(fit)) : k \in 1 .. Len(fit) /\ Elites(fit)[k] = Sorted(fit)[k]
  <2> DEFINE sorted == Sorted(fit)
             taken == FirstOf(sorted, EliteCount)
  <2>1. Elites(fit) = taken
    BY DEF Elites
  <2> DEFINE places == 1 .. Len(fit)
  <2>2. sorted \in Seq(places) /\ Len(sorted) = Len(fit)
    BY <1>2
  <2> HIDE DEF sorted, places
  <2>3. /\ taken \in Seq(places)
        /\ \A k \in 1 .. Len(taken) : k \in 1 .. Len(sorted) /\ taken[k] = sorted[k]
    BY <1>1, <2>2, FirstOfWorks
  <2> QED BY <2>1, <2>2, <2>3 DEF sorted, places
<1>4. ASSUME NEW k \in 1 .. Len(Elites(fit))
      PROVE  Cardinality({j \in DOMAIN fit : fit[j] > fit[Elites(fit)[k]]}) < k
  BY <1>3, <1>4, SortedWorks
<1> QED BY <1>3, <1>4

\* Dropping the invalid candidates drops none where all are valid.
LEMMA ValidOnlyWorks ==
  ASSUME NEW cs \in Seq(Candidates)
  PROVE  /\ ValidOnly(cs) \in Seq(Candidates) /\ Len(ValidOnly(cs)) <= Len(cs)
         /\ (\A k \in 1 .. Len(cs) : Valid(cs[k])) => ValidOnly(cs) = cs
<1> DEFINE valid == {k \in DOMAIN cs : Valid(cs[k])}
           upTo(k) == {j \in valid : j <= k}
           m == Cardinality(valid)
<1>1. IsFiniteSet(DOMAIN cs) /\ Cardinality(DOMAIN cs) = Len(cs) /\ DOMAIN cs = 1 .. Len(cs)
  <2>1. Len(cs) \in Nat /\ DOMAIN cs = 1 .. Len(cs)
    OBVIOUS
  <2> QED BY SMTT(40), <2>1, FS_Interval
<1>2. IsFiniteSet(valid) /\ m \in Nat /\ m <= Len(cs)
  BY <1>1, FS_Subset, FS_CardinalityType
<1>3. \A n \in 1 .. m : \E k \in valid : Cardinality(upTo(k)) = n
  <2> DEFINE place == [k \in valid |-> Cardinality(upTo(k))]
  <2>1. ASSUME NEW k \in valid PROVE IsFiniteSet(upTo(k)) /\ place[k] \in 1 .. m
    <3>1. IsFiniteSet(upTo(k)) /\ Cardinality(upTo(k)) <= m
      BY <1>2, FS_Subset
    <3>2. k \in upTo(k)
      BY <1>1
    <3>3. Cardinality(upTo(k)) \in Nat /\ Cardinality(upTo(k)) # 0
      BY SMTT(40), <3>1, <3>2, FS_EmptySet, FS_CardinalityType
    <3> QED BY <1>2, <3>1, <3>3
  <2>2. ASSUME NEW j \in valid, NEW k \in valid, j < k PROVE place[j] < place[k]
    <3>1. upTo(j) \subseteq upTo(k) /\ k \in upTo(k) /\ k \notin upTo(j)
      BY <1>1, <2>2
    <3>2. Cardinality(upTo(j)) <= Cardinality(upTo(k)) /\ Cardinality(upTo(j)) # Cardinality(upTo(k))
      BY <2>1, <3>1, FS_Subset
    <3>3. place[j] = Cardinality(upTo(j)) /\ place[k] = Cardinality(upTo(k))
      OBVIOUS
    <3> HIDE DEF place, upTo
    <3>4. place[j] \in Int /\ place[k] \in Int
      BY <1>2, <2>1
    <3> QED BY <3>2, <3>3, <3>4
  <2>3. place \in [valid -> 1 .. m]
    BY <2>1
  <2> HIDE DEF place
  <2>4. \A j, k \in valid : j # k => place[j] # place[k]
    <3> SUFFICES ASSUME NEW j \in valid, NEW k \in valid, j # k PROVE place[j] # place[k]
      OBVIOUS
    <3>1. j < k \/ k < j
      BY <1>1
    <3>2. place[j] \in Int /\ place[k] \in Int
      BY <1>2, <2>3
    <3> QED BY <2>2, <3>1, <3>2
  <2>5. place \in Injection(valid, 1 .. m)
    BY <2>3, <2>4 DEF Injection, IsInjective
  <2>6. IsFiniteSet(1 .. m) /\ Cardinality(1 .. m) = m
    BY SMTT(40), <1>2, FS_Interval
  <2>7. place \in Surjection(valid, 1 .. m)
    BY <1>2, <2>5, <2>6, FS_Injection
  <2> QED BY <2>7 DEF Surjection, place
<1> DEFINE pick(n) == CHOOSE k \in valid : Cardinality(upTo(k)) = n
<1>4. \A n \in 1 .. m : pick(n) \in valid /\ Cardinality(upTo(pick(n))) = n
  BY <1>3
<1>5. ValidOnly(cs) = [n \in 1 .. m |-> cs[pick(n)]]
  BY DEF ValidOnly
<1>6. ValidOnly(cs) \in Seq(Candidates) /\ Len(ValidOnly(cs)) = m
  <2>0. \A k \in valid : cs[k] \in Candidates
    OBVIOUS
  <2> HIDE DEF pick, m, valid
  <2>1. \A n \in 1 .. m : cs[pick(n)] \in Candidates
    BY <2>0, <1>4
  <2> QED BY <1>2, <1>5, <2>1
<1>7. ASSUME \A k \in 1 .. Len(cs) : Valid(cs[k]) PROVE ValidOnly(cs) = cs
  <2>1. valid = 1 .. Len(cs) /\ m = Len(cs)
    BY <1>1, <1>7
  <2>2. ASSUME NEW n \in 1 .. m PROVE pick(n) = n
    <3> DEFINE p == pick(n)
    <3>1. p \in 1 .. Len(cs) /\ Cardinality(upTo(p)) = n
      BY <1>4, <2>1
    <3> HIDE DEF p
    <3>2. Len(cs) \in Nat /\ p \in Nat
      BY <3>1
    <3>3. upTo(p) = 1 .. p
      <4> HIDE DEF valid
      <4> QED BY <2>1, <3>1, <3>2
    <3>4. Cardinality(1 .. p) = p
      BY <3>2, FS_Interval
    <3>5. p = n
      BY <3>1, <3>3, <3>4
    <3> QED BY <3>5 DEF p
  <2> HIDE DEF pick, m, valid
  <2>3. [n \in 1 .. m |-> cs[pick(n)]] = [n \in 1 .. Len(cs) |-> cs[n]]
    BY <2>1, <2>2
  <2>4. cs = [n \in 1 .. Len(cs) |-> cs[n]]
    OBVIOUS
  <2> QED BY <1>5, <2>3, <2>4
<1> QED BY <1>2, <1>6, <1>7

\* A population of members is one of candidates.
LEMMA MembersTyped ==
  /\ \A s \in Seq(Members) : s \in Seq(Candidates)
  /\ \A s \in Seq(Members) : \A k \in 1 .. Len(s) : s[k] \in Members
BY DEF Members

\* The promises are kept at the start.
LEMMA KeptInit == Init => KeptInvariant
<1> SUFFICES ASSUME Init PROVE KeptInvariant
  OBVIOUS
<1>1. VectorsKept
  BY DEF Init, VectorsKept
<1>2. PhaseKept
  BY IsaAssumption DEF Init, PhaseKept
<1> QED BY <1>1, <1>2 DEF Init, KeptInvariant

\* Every step keeps them.
LEMMA KeptStep == KeptInvariant /\ [Next]_vars => KeptInvariant'
<1> SUFFICES ASSUME KeptInvariant, [Next]_vars PROVE KeptInvariant'
  OBVIOUS
<1> USE DEF KeptInvariant
<1>0. program' = program
  BY DEF vars, Next, Seed, AddRandom, FinishSeeding, SelectElites, Breed, FinishGeneration
<1>1. Members' = Members /\ Seeds' = Seeds
  BY <1>0, SameProgram
<1>2. PopulationSize \in Nat /\ MaxGenerations \in Nat
  BY IsaAssumption
<1>3. VectorsKept /\ PhaseKept
  OBVIOUS
<1>4. Len(next) \in Nat /\ Len(candidates) \in Nat /\ Len(fitnesses) \in Nat
  BY <1>3 DEF VectorsKept
<1>5. CASE Seed
  <2>1. Seeds \in Seq(Members)
    BY SeedsSupport
  <2>2. VectorsKept'
    BY <1>1, <1>3, <1>5, <2>1 DEF VectorsKept, Seed
  <2>3. PhaseKept'
    <3>1. next' = Seeds' /\ phase' = "random" /\ generation' = generation
      BY <1>1, <1>5 DEF Seed
    <3>2. Len(Seeds') \in Nat
      BY <1>1, <2>1
    <3> QED BY <1>3, <3>1, <3>2 DEF PhaseKept
  <2> QED BY <1>0, <2>2, <2>3
<1>6. CASE AddRandom
  <2>1. PICK c \in RandomCandidates :
          Valid(c) /\ next' = Append(next, c) /\ nextFitness' = Append(nextFitness, Fitness(c))
    BY <1>6 DEF AddRandom
  <2>2. c \in Members /\ Fitness(c) \in Nat
    BY <2>1, RandomIsWhole, MembersAreValid, FitnessPositive
  <2>3. VectorsKept'
    BY <1>1, <1>3, <1>6, <2>1, <2>2 DEF VectorsKept, AddRandom
  <2>4. PhaseKept'
    <3>1. Len(Seeds) \in Nat
      BY SeedsSupport
    <3>2. /\ Len(next') = Len(next) + 1
          /\ \A k \in 1 .. Len(next) : next'[k] = next[k]
      BY <1>3, <2>1 DEF VectorsKept
    <3>3. phase = "random" /\ phase' = phase /\ generation' = generation
      BY <1>6 DEF AddRandom
    <3>4. Len(Seeds) <= Len(next') /\ \A k \in 1 .. Len(Seeds) : next'[k] = Seeds[k]
      BY SMTT(40), <1>3, <1>4, <3>1, <3>2, <3>3 DEF PhaseKept
    <3> QED BY <1>1, <1>3, <3>3, <3>4 DEF PhaseKept
  <2> QED BY <1>0, <2>3, <2>4
<1>7. CASE FinishSeeding
  <2>1. next \in Seq(Candidates)
    BY <1>3, MembersTyped DEF VectorsKept
  <2>2. ValidOnly(next) \in Seq(Candidates) /\ Len(ValidOnly(next)) <= Len(next)
    BY <2>1, ValidOnlyWorks
  <2>3. FitnessOf(ValidOnly(next)) \in Seq(Nat) /\ Len(FitnessOf(ValidOnly(next))) <= Len(next)
    BY <2>2, FitnessOfWorks
  <2>4. fitnesses' \in Seq(Nat) /\ Len(fitnesses') <= Len(next)
    BY <1>7, <2>3, RecordedWorks DEF FinishSeeding
  <2>5. VectorsKept'
    BY <1>1, <1>3, <1>7, <2>4 DEF VectorsKept, FinishSeeding
  <2>6. PhaseKept'
    BY <1>2, <1>3, <1>4, <1>7 DEF PhaseKept, FinishSeeding
  <2> QED BY <1>0, <2>5, <2>6
<1>8. CASE SelectElites
  <2>1. fitnesses \in Seq(Nat) /\ candidates \in Seq(Members) /\ Len(fitnesses) <= Len(candidates)
    BY <1>3 DEF VectorsKept
  <2> DEFINE best == Elites(fitnesses)
  <2>2. best \in Seq(1 .. Len(fitnesses))
    BY <2>1, ElitesWork
  <2>3. /\ next' = [k \in DOMAIN best |-> candidates[best[k]]]
        /\ nextFitness' = [k \in DOMAIN best |-> fitnesses[best[k]]]
    BY <1>8 DEF SelectElites
  <2> HIDE DEF best
  <2>4. \A k \in 1 .. Len(best) : candidates[best[k]] \in Members /\ fitnesses[best[k]] \in Nat
    <3> SUFFICES ASSUME NEW k \in 1 .. Len(best)
                 PROVE  candidates[best[k]] \in Members /\ fitnesses[best[k]] \in Nat
      OBVIOUS
    <3>1. best[k] \in 1 .. Len(fitnesses) /\ best[k] \in 1 .. Len(candidates)
      BY SMTT(40), <1>4, <2>1, <2>2
    <3> QED BY <2>1, <3>1, MembersTyped
  <2>5. DOMAIN best = 1 .. Len(best) /\ Len(best) \in Nat
    BY <2>2
  <2>6. next' \in Seq(Members) /\ nextFitness' \in Seq(Nat)
    BY <2>3, <2>4, <2>5
  <2>7. VectorsKept'
    BY <1>1, <1>3, <1>8, <2>6 DEF VectorsKept, SelectElites
  <2>8. PhaseKept'
    BY <1>3, <1>8 DEF PhaseKept, SelectElites
  <2> QED BY <1>0, <2>7, <2>8
<1>9. CASE Breed
  <2>1. Parents \in SUBSET Members
    <3>1. \A i \in DOMAIN fitnesses : candidates[i] \in Members
      BY <1>3, <1>4, MembersTyped DEF VectorsKept
    <3> QED BY <3>1 DEF Parents
  <2>2. PICK children \in Births(Parents) :
          LET born == FirstOf(children, PopulationSize - Len(next))
          IN  next' = next \o born /\ nextFitness' = nextFitness \o FitnessOf(born)
    BY <1>9 DEF Breed
  <2> DEFINE born == FirstOf(children, PopulationSize - Len(next))
  <2>3. children \in Seq(Members)
    BY <2>1, BirthsAreMembers
  <2>4. PopulationSize - Len(next) \in Nat
    BY <1>2, <1>4, <1>9 DEF Breed
  <2>5. born \in Seq(Members)
    BY <2>3, <2>4, FirstOfWorks
  <2>6. next' = next \o born /\ nextFitness' = nextFitness \o FitnessOf(born)
    BY <2>2
  <2> HIDE DEF born
  <2>7. FitnessOf(born) \in Seq(Nat)
    BY <2>5, MembersTyped, FitnessOfWorks
  <2>8. VectorsKept'
    <3>1. next' \in Seq(Members) /\ nextFitness' \in Seq(Nat)
      BY <1>3, <2>5, <2>6, <2>7 DEF VectorsKept
    <3>2. candidates' = candidates /\ fitnesses' = fitnesses
      BY <1>9 DEF Breed
    <3> QED BY <1>1, <1>3, <3>1, <3>2 DEF VectorsKept
  <2>9. PhaseKept'
    BY <1>3, <1>9 DEF PhaseKept, Breed
  <2> QED BY <1>0, <2>8, <2>9
<1>10. CASE FinishGeneration
  <2>1. nextFitness \in Seq(Nat) /\ next \in Seq(Members) /\ PopulationSize <= Len(next)
    BY <1>3, <1>10, <1>2, <1>4 DEF VectorsKept, FinishGeneration
  <2>2. /\ FirstOf(next, PopulationSize) \in Seq(Members)
        /\ Len(FirstOf(next, PopulationSize)) = PopulationSize
    BY <1>2, <1>4, <2>1, FirstOfWorks
  <2>3. /\ FirstOf(nextFitness, PopulationSize) \in Seq(Nat)
        /\ Len(FirstOf(nextFitness, PopulationSize)) <= PopulationSize
    <3>1. Len(nextFitness) \in Nat
      BY <2>1
    <3> QED BY <1>2, <2>1, <3>1, FirstOfWorks
  <2>4. fitnesses' \in Seq(Nat) /\ Len(fitnesses') <= PopulationSize
    BY <1>10, <2>3, RecordedWorks DEF FinishGeneration
  <2>5. VectorsKept'
    BY <1>1, <1>10, <2>2, <2>4 DEF VectorsKept, FinishGeneration
  <2>6. PhaseKept'
    BY <1>2, <1>3, <1>10, <2>2 DEF PhaseKept, FinishGeneration
  <2> QED BY <1>0, <2>5, <2>6
<1>11. CASE UNCHANGED vars
  BY <1>1, <1>11 DEF vars, VectorsKept, PhaseKept
<1> QED BY <1>5, <1>6, <1>7, <1>8, <1>9, <1>10, <1>11 DEF Next

\* The vectors stay in their domains: no generation is short of members when the next
\* one is bred, and no recorded fitness is left without a member.
THEOREM VectorsAreKept == Spec => []KeptInvariant
BY KeptInit, KeptStep, PTL DEF Spec

\* The type invariant is part of the inductive one.
LEMMA KeptIsTyped == KeptInvariant => TypeOK
<1> SUFFICES ASSUME KeptInvariant PROVE TypeOK
  OBVIOUS
<1>1. candidates \in Seq(Candidates) /\ next \in Seq(Candidates)
  BY MembersTyped DEF KeptInvariant, VectorsKept
<1> QED BY <1>1 DEF TypeOK, KeptInvariant, VectorsKept, PhaseKept

\* The domains of the search, for every value of the constants.
THEOREM TypeCorrect == Spec => []TypeOK
BY VectorsAreKept, KeptIsTyped, PTL

\* And so are the promises.
LEMMA KeptIsPromised == KeptInvariant => PromisesKept
<1> SUFFICES ASSUME KeptInvariant PROVE PromisesKept
  OBVIOUS
<1> USE DEF KeptInvariant
<1>1. SeedsBreakNothing
  <2> SUFFICES ASSUME phase = "random", NEW k \in DOMAIN Seeds PROVE Conflicts(next[k]) = 0
    BY DEF SeedsBreakNothing
  <2>1. Seeds \in Seq(Members) /\ Conflicts(Seeds[k]) = 0
    BY SeedsSupport
  <2>2. k \in 1 .. Len(Seeds)
    BY <2>1
  <2> QED BY <2>1, <2>2 DEF PhaseKept
<1>2. RequirementsKept
  <2> SUFFICES ASSUME NEW k \in DOMAIN candidates
               PROVE  LET c == candidates[k]
                      IN  /\ MandatoryKept(c)
                          /\ \A form \in Unrestricted : EncodingsOf(form, MaxUses) \subseteq Encodings(c)
                          /\ StaticInstructionsKept(c)
                          /\ \A f \in RegisterFields : c.uses[f] = Bit
    BY DEF RequirementsKept
  <2> DEFINE c == candidates[k]
  <2>1. c \in Members
    BY MembersTyped DEF VectorsKept
  <2> HIDE DEF c
  <2>2. \A form \in Unrestricted : EncodingsOf(form, MaxUses) \subseteq Encodings(c)
    BY <2>1, MembersAreValid DEF UnrestrictedKept, Encodings
  <2>3. MandatoryKept(c) /\ StaticInstructionsKept(c) /\ \A f \in RegisterFields : c.uses[f] = Bit
    BY <2>1, SelectableTyped DEF Members, Whole
  <2> QED BY <2>2, <2>3 DEF c
<1> QED BY <1>1, <1>2 DEF PromisesKept

\* Every seed supports the whole program, and every member of every generation has the
\* mandatory forms, all encodings of the unrestricted ones, the static instructions
\* and all registers: whatever is crossed over, mutated or fixed.
THEOREM PromisesAreKept == Spec => []PromisesKept
BY VectorsAreKept, KeptIsPromised, PTL

(***************************************************************************)
(* Fitnesses, when nothing that the search could restrict is fixed.        *)
(***************************************************************************)

\* Fitness depends on the program alone.
LEMMA SameFitness ==
  ASSUME program' = program
  PROVE  /\ FitnessOf(candidates)' = FitnessOf(candidates')
         /\ FitnessOf(next)' = FitnessOf(next')
         /\ \A c : Fitness(c)' = Fitness(c)
<1>1. \A c : Conflicts(c)' = Conflicts(c)
  BY DEF Conflicts, Supports
<1>2. \A c : Fitness(c)' = Fitness(c)
  BY <1>1 DEF Fitness, RemovedGates, TotalGates, Encodings, MaxIsa
<1> QED BY <1>2 DEF FitnessOf

\* The fitnesses of two vectors in a row are those of each.
LEMMA FitnessOfJoined ==
  ASSUME program \in GivenPrograms, NEW s \in Seq(Candidates), NEW t \in Seq(Candidates)
  PROVE  FitnessOf(s \o t) = FitnessOf(s) \o FitnessOf(t)
<1> DEFINE joined == s \o t
           left == FitnessOf(s)
           right == FitnessOf(t)
<1>1. /\ left \in Seq(Nat) /\ Len(left) = Len(s) /\ \A k \in 1 .. Len(s) : left[k] = Fitness(s[k])
      /\ right \in Seq(Nat) /\ Len(right) = Len(t) /\ \A k \in 1 .. Len(t) : right[k] = Fitness(t[k])
  BY FitnessOfWorks
<1>2. joined \in Seq(Candidates) /\ Len(joined) = Len(s) + Len(t)
  OBVIOUS
<1>3. /\ \A k \in 1 .. Len(s) : joined[k] = s[k]
      /\ \A k \in 1 .. Len(s) + Len(t) : k > Len(s) => joined[k] = t[k - Len(s)]
  OBVIOUS
<1> HIDE DEF joined, left, right
<1>4. /\ FitnessOf(joined) \in Seq(Nat) /\ Len(FitnessOf(joined)) = Len(s) + Len(t)
      /\ \A k \in 1 .. Len(s) + Len(t) : FitnessOf(joined)[k] = Fitness(joined[k])
  BY <1>2, FitnessOfWorks
<1>5. left \o right \in Seq(Nat)
  BY <1>1
<1>6. Len(s) \in Nat /\ Len(t) \in Nat /\ Len(left \o right) = Len(s) + Len(t)
  <2>0. left \in Seq(Nat) /\ right \in Seq(Nat)
    BY <1>1
  <2>1. Len(left \o right) = Len(left) + Len(right)
    BY <2>0, ConcatProperties
  <2>2. Len(s) \in Nat /\ Len(t) \in Nat
    OBVIOUS
  <2> QED BY <1>1, <2>1, <2>2
<1>7. ASSUME NEW k \in 1 .. Len(s) + Len(t)
      PROVE  FitnessOf(joined)[k] = (left \o right)[k]
  <2>1. FitnessOf(joined)[k] = Fitness(joined[k])
    BY <1>4
  <2>2. CASE k <= Len(s)
    <3>1. k \in 1 .. Len(s) /\ (left \o right)[k] = left[k]
      BY <1>1, <1>6, <2>2
    <3> QED BY <1>1, <1>3, <2>1, <3>1
  <2>3. CASE k > Len(s)
    <3>1. k - Len(s) \in 1 .. Len(t) /\ (left \o right)[k] = right[k - Len(s)]
      BY SMTT(40), <1>1, <1>6, <2>3
    <3> QED BY <1>1, <1>3, <2>1, <2>3, <3>1
  <2>4. k \in Int
    BY <1>6
  <2> QED BY <1>6, <2>2, <2>3, <2>4
<1>8. FitnessOf(joined) = left \o right
  BY <1>4, <1>5, <1>6, <1>7, SeqEqual
<1> QED BY <1>8 DEF joined, left, right

\* The first fitnesses are those of the first members.
LEMMA FitnessOfFirst ==
  ASSUME program \in GivenPrograms, NEW s \in Seq(Candidates), NEW n \in Nat
  PROVE  FirstOf(FitnessOf(s), n) = FitnessOf(FirstOf(s, n))
<1> DEFINE kept == FirstOf(s, n)
           all == FitnessOf(s)
           first == FirstOf(all, n)
<1>1. /\ all \in Seq(Nat) /\ Len(all) = Len(s) /\ \A k \in 1 .. Len(s) : all[k] = Fitness(s[k])
  BY FitnessOfWorks
<1>2. /\ kept \in Seq(Candidates) /\ Len(kept) = IF n < Len(s) THEN n ELSE Len(s)
      /\ \A k \in 1 .. Len(kept) : k \in 1 .. Len(s) /\ kept[k] = s[k]
  BY FirstOfWorks
<1> HIDE DEF all, kept
<1>3. first \in Seq(Nat) /\ Len(first) = Len(kept) /\ \A k \in 1 .. Len(first) : first[k] = all[k]
  BY <1>1, <1>2, FirstOfWorks
<1>4. /\ FitnessOf(kept) \in Seq(Nat) /\ Len(FitnessOf(kept)) = Len(kept)
      /\ \A k \in 1 .. Len(kept) : FitnessOf(kept)[k] = Fitness(kept[k])
  BY <1>2, FitnessOfWorks
<1> HIDE DEF first
<1>5. \A k \in 1 .. Len(first) : first[k] = FitnessOf(kept)[k]
  BY <1>1, <1>2, <1>3, <1>4
<1>6. first = FitnessOf(kept)
  BY <1>3, <1>4, <1>5, SeqEqual
<1> QED BY <1>6 DEF first, all, kept

\* The second half of the invariant, on top of the first.
LEMMA OwnStep ==
  ASSUME FixedUsesAreWhole, KeptInvariant, FitnessIsOwn, [Next]_vars
  PROVE  FitnessIsOwn'
<1> USE DEF KeptInvariant
<1>0. program' = program
  BY DEF vars, Next, Seed, AddRandom, FinishSeeding, SelectElites, Breed, FinishGeneration
<1>1. /\ FitnessOf(candidates)' = FitnessOf(candidates')
      /\ FitnessOf(next)' = FitnessOf(next')
  BY <1>0, SameFitness
<1>2. /\ candidates \in Seq(Candidates) /\ next \in Seq(Candidates)
      /\ \A k \in 1 .. Len(next) : next[k] \in Members
      /\ fitnesses \in Seq(Nat) /\ nextFitness \in Seq(Nat)
  BY MembersTyped DEF VectorsKept
<1>3. PopulationSize \in Nat /\ MaxGenerations \in Nat
  BY IsaAssumption
<1>4. ASSUME NEW cs \in Seq(Candidates) PROVE Recorded(FitnessOf(cs)) = FitnessOf(cs)
  <2>1. FitnessOf(cs) \in Seq(Nat) /\ \A k \in DOMAIN FitnessOf(cs) : FitnessOf(cs)[k] # 0
    BY FitnessOfWorks
  <2> QED BY <2>1, RecordedWorks
<1>5. CASE Seed \/ AddRandom
  BY <1>5 DEF Seed, AddRandom, FitnessIsOwn, PhaseKept
<1>6. CASE FinishSeeding
  <2>1. ValidOnly(next) = next
    BY <1>2, MembersAreValid, ValidOnlyWorks
  <2>2. fitnesses' = FitnessOf(candidates')
    BY <1>2, <1>4, <1>6, <2>1 DEF FinishSeeding
  <2> QED BY <1>1, <1>6, <2>2 DEF FitnessIsOwn, FinishSeeding
<1>7. CASE SelectElites
  <2> DEFINE best == Elites(fitnesses)
  <2>1. best \in Seq(1 .. Len(fitnesses))
    BY <1>2, ElitesWork
  <2>2. /\ next' = [k \in DOMAIN best |-> candidates[best[k]]]
        /\ nextFitness' = [k \in DOMAIN best |-> fitnesses[best[k]]]
    BY <1>7 DEF SelectElites
  <2>3. fitnesses = FitnessOf(candidates)
    BY <1>7 DEF FitnessIsOwn, SelectElites
  <2> HIDE DEF best
  <2>4. \A k \in DOMAIN best : fitnesses[best[k]] = Fitness(candidates[best[k]])
    BY <1>2, <2>1, <2>3 DEF FitnessOf
  <2>5. nextFitness' = FitnessOf(next')
    BY <2>2, <2>4 DEF FitnessOf
  <2>6. candidates' = candidates /\ fitnesses' = fitnesses
    BY <1>7 DEF SelectElites
  <2> QED BY <1>1, <2>3, <2>5, <2>6 DEF FitnessIsOwn
<1>8. CASE Breed
  <2>1. PICK children \in Births(Parents) :
          LET born == FirstOf(children, PopulationSize - Len(next))
          IN  next' = next \o born /\ nextFitness' = nextFitness \o FitnessOf(born)
    BY <1>8 DEF Breed
  <2> DEFINE born == FirstOf(children, PopulationSize - Len(next))
  <2>2. Parents \in SUBSET Members
    <3>1. \A i \in DOMAIN fitnesses : candidates[i] \in Members
      BY MembersTyped DEF VectorsKept
    <3> QED BY <3>1 DEF Parents
  <2>3. children \in Seq(Members)
    BY <2>2, BirthsAreMembers
  <2>4. PopulationSize - Len(next) \in Nat
    BY <1>2, <1>3, <1>8 DEF Breed
  <2>5. born \in Seq(Candidates)
    BY <2>3, <2>4, MembersTyped, FirstOfWorks
  <2>6. next' = next \o born /\ nextFitness' = FitnessOf(next) \o FitnessOf(born)
    BY <1>8, <2>1 DEF FitnessIsOwn, Breed
  <2> HIDE DEF born
  <2>7. nextFitness' = FitnessOf(next')
    BY <1>2, <2>5, <2>6, FitnessOfJoined
  <2>8. candidates' = candidates /\ fitnesses' = fitnesses /\ phase = "breed"
    BY <1>8 DEF Breed
  <2> QED BY <1>1, <2>7, <2>8 DEF FitnessIsOwn
<1>9. CASE FinishGeneration
  <2> DEFINE kept == FirstOf(next, PopulationSize)
  <2>1. kept \in Seq(Candidates)
    BY <1>2, <1>3, FirstOfWorks
  <2>2. FirstOf(FitnessOf(next), PopulationSize) = FitnessOf(kept)
    BY <1>2, <1>3, FitnessOfFirst
  <2>3. candidates' = kept /\ fitnesses' = Recorded(FitnessOf(kept))
    BY <1>9, <2>2 DEF FinishGeneration, FitnessIsOwn
  <2>4. fitnesses' = FitnessOf(candidates')
    BY <1>4, <2>1, <2>3
  <2>5. phase' = "select"
    BY <1>9 DEF FinishGeneration
  <2> QED BY <1>1, <2>4, <2>5 DEF FitnessIsOwn
<1>10. CASE UNCHANGED vars
  BY <1>1, <1>10 DEF vars, FitnessIsOwn
<1> QED BY <1>5, <1>6, <1>7, <1>8, <1>9, <1>10 DEF Next

\* The inductive invariant of the fitnesses.
OwnInvariant == KeptInvariant /\ FitnessIsOwn

\* Each fitness is its candidate's, after every step.
LEMMA OwnInductive ==
  ASSUME FixedUsesAreWhole
  PROVE  /\ Init => OwnInvariant
         /\ OwnInvariant /\ [Next]_vars => OwnInvariant'
<1>1. Init => OwnInvariant
  BY KeptInit DEF Init, FitnessIsOwn, OwnInvariant
<1>2. OwnInvariant /\ [Next]_vars => OwnInvariant'
  BY KeptStep, OwnStep DEF OwnInvariant
<1> QED BY <1>1, <1>2

\* With no field use fixed that restricts, the fitness recorded for a member is always
\* its own: no invalid candidate is left out of one vector and kept in the other.
THEOREM FitnessesAreOwn ==
  ASSUME FixedUsesAreWhole
  PROVE  Spec => []GenerationInvariant
<1>1. Init => OwnInvariant
  BY OwnInductive
<1>2. OwnInvariant /\ [Next]_vars => OwnInvariant'
  BY OwnInductive
<1>3. OwnInvariant => GenerationInvariant
  BY KeptIsTyped DEF OwnInvariant, GenerationInvariant
<1> QED BY <1>1, <1>2, <1>3, PTL DEF Spec

\* A step that selects keeps the best.
LEMMA StepSelectsTop ==
  ASSUME OwnInvariant, [Next]_vars
  PROVE  SelectsTop
<1> USE DEF OwnInvariant, KeptInvariant
<1> SUFFICES ASSUME phase = "select", phase' = "breed", NEW k \in DOMAIN next'
             PROVE  Cardinality({i \in DOMAIN candidates :
                                   Fitness(candidates[i]) > Fitness(next'[k])}) < k
  BY DEF SelectsTop
<1>1. SelectElites
  BY DEF vars, Next, Seed, AddRandom, FinishSeeding, SelectElites, Breed, FinishGeneration
<1>2. /\ fitnesses = FitnessOf(candidates) /\ fitnesses \in Seq(Nat)
      /\ candidates \in Seq(Candidates)
  BY MembersTyped DEF FitnessIsOwn, VectorsKept
<1> DEFINE best == Elites(fitnesses)
<1>3. /\ best \in Seq(1 .. Len(fitnesses))
      /\ \A n \in 1 .. Len(best) :
           Cardinality({j \in DOMAIN fitnesses : fitnesses[j] > fitnesses[best[n]]}) < n
  BY <1>2, ElitesWork
<1>4. next' = [n \in DOMAIN best |-> candidates[best[n]]]
  BY <1>1 DEF SelectElites
<1> HIDE DEF best
<1>5. k \in 1 .. Len(best) /\ best[k] \in 1 .. Len(fitnesses)
  BY <1>3, <1>4
<1>6. /\ DOMAIN fitnesses = DOMAIN candidates
      /\ \A j \in DOMAIN candidates : fitnesses[j] = Fitness(candidates[j])
  BY <1>2 DEF FitnessOf
<1>7. best[k] \in DOMAIN candidates /\ next'[k] = candidates[best[k]]
  BY <1>2, <1>4, <1>5, <1>6
<1>8. {i \in DOMAIN candidates : Fitness(candidates[i]) > Fitness(next'[k])}
        = {j \in DOMAIN fitnesses : fitnesses[j] > fitnesses[best[k]]}
  BY <1>6, <1>7
<1> QED BY <1>3, <1>5, <1>8

\* "Take the top self.elite_candidate_count candidates": fewer than k members are
\* fitter than the k-th that is taken over, for every size of the population.
THEOREM TopIsKept ==
  ASSUME FixedUsesAreWhole
  PROVE  Spec => TopCandidatesKept
<1>1. Init => OwnInvariant
  BY OwnInductive
<1>2. OwnInvariant /\ [Next]_vars => OwnInvariant'
  BY OwnInductive
<1>3. OwnInvariant /\ [Next]_vars => [SelectsTop]_vars
  BY StepSelectsTop
<1> QED BY <1>1, <1>2, <1>3, PTL DEF Spec, TopCandidatesKept
==============================================================================
