---------------------------- MODULE IsaOptimization ----------------------------
(***************************************************************************)
(* The genetic search of isa_optimization.rs over restrictions of an ISA.  *)
(*                                                                         *)
(* A candidate is a record                                                 *)
(*   uses   for each field, the values it may take: the coverage of its    *)
(*          FieldUses, which FieldUses::merge keeps (module FieldUses)     *)
(*   forms  the active forms, of all instructions together                 *)
(* Fields have one bit here, so a set of values is one merged pattern set  *)
(* and comparing coverage is what comparing FieldUses does.  The predicate *)
(* of every form is Always.                                                *)
(***************************************************************************)
EXTENDS Integers, Sequences, FiniteSets, SequencesExt

CONSTANTS
  Fields, Forms,
  FieldsOf,        \* the fields of each form
  Instructions,    \* the ISA: a sequence of sequences of forms
  Mandatory,       \* mandatory_forms: instruction indices to sets of forms
  Unrestricted,    \* the forms of unrestricted_forms
  VariableFields,  \* the fields of merge mode VariableBits; the others are Uses
  RegisterFields,  \* is_register_read or is_register_write
  FixedUses,       \* fixed_field_uses
  GivenPrograms,   \* programs to optimize for: sequences of [form, value, static]
  PopulationSize,
  EliteCount,
  MaxGenerations   \* 10_000 in the code

Bit == {0, 1}
FormsOf(n) == {Instructions[n][k] : k \in DOMAIN Instructions[n]}
Candidates == [uses : [Fields -> SUBSET Bit], forms : SUBSET Forms]

ASSUME IsaAssumption ==
  /\ IsFiniteSet(Fields) /\ IsFiniteSet(Forms)
  /\ FieldsOf \in [Forms -> SUBSET Fields]
  /\ \A n \in DOMAIN Instructions : FormsOf(n) \subseteq Forms /\ Instructions[n] # <<>>
  /\ Instructions \in Seq(Seq(Forms))
  /\ \A n \in DOMAIN Mandatory : n \in DOMAIN Instructions /\ Mandatory[n] \subseteq FormsOf(n)
  /\ Unrestricted \subseteq Forms
  /\ DOMAIN FixedUses \subseteq Fields /\ VariableFields \subseteq Fields /\ RegisterFields \subseteq Fields
  /\ PopulationSize \in Nat /\ EliteCount \in 0 .. PopulationSize /\ MaxGenerations \in Nat

\* A decoded instruction is of a form and has values of its fields.
DecodedInstructions ==
  UNION {[form : {form}, value : [FieldsOf[form] -> Bit], static : BOOLEAN] : form \in Forms}

ASSUME ProgramsAssumption == GivenPrograms \subseteq Seq(DecodedInstructions) \ {<<>>}

VARIABLES
  program,      \* the program that the search is made for
  candidates,   \* the generation, and
  fitnesses,    \* candidate_fitnesses, a vector of its own
  next,         \* new_generation while it is being filled
  nextFitness,  \* new_fitness, or the fitnesses of the random candidates
  phase,        \* "seed", "random", "select" or "breed"
  generation

vars == <<program, candidates, fitnesses, next, nextFitness, phase, generation>>

(***************************************************************************)
(* valid_encodings and its checks.                                         *)
(***************************************************************************)

EncodingsOf(form, uses) ==
  {<<form, a>> : a \in {b \in [FieldsOf[form] -> Bit] :
                          \A f \in FieldsOf[form] : b[f] \in uses[f]}}

Encodings(c) == UNION {EncodingsOf(form, c.uses) : form \in c.forms}

HasEncoding(c, form) == form \in c.forms /\ EncodingsOf(form, c.uses) # {}

MaxUses == [f \in Fields |-> Bit]
MaxIsa == [uses |-> MaxUses, forms |-> Forms]

Supports(c, i) ==
  i.form \in c.forms /\ \A f \in FieldsOf[i.form] : i.value[f] \in c.uses[f]

StaticInstructionsKept(c) ==
  \A k \in DOMAIN program : program[k].static => Supports(c, program[k])

FixedUsesKept(c) == \A f \in DOMAIN FixedUses : c.uses[f] = FixedUses[f]

MandatoryKept(c) ==
  \A n \in DOMAIN Mandatory :
    /\ \A form \in Mandatory[n] : HasEncoding(c, form)
    /\ \E form \in FormsOf(n) : HasEncoding(c, form)

UnrestrictedKept(c) ==
  \A form \in Unrestricted :
    form \in c.forms /\ EncodingsOf(form, c.uses) = EncodingsOf(form, MaxUses)

BadValid(c) == StaticInstructionsKept(c) /\ FixedUsesKept(c) /\ UnrestrictedKept(c)

\* valid_encodings returns Ok, hence candidate_fitness does.
Valid(c) ==
  /\ StaticInstructionsKept(c)
  /\ FixedUsesKept(c)
  /\ MandatoryKept(c)
  /\ UnrestrictedKept(c)

(***************************************************************************)
(* candidate_fitness, scaled to an integer.  The simulator is taken as one *)
(* gate for each instruction word: the gate goes when the word is not an   *)
(* encoding any more.                                                      *)
(***************************************************************************)

TotalGates == Cardinality(Encodings(MaxIsa))
RemovedGates(c) == TotalGates - Cardinality(Encodings(c))
Conflicts(c) == Cardinality({k \in DOMAIN program : ~Supports(c, program[k])})

Fitness(c) ==
  12 * RemovedGates(c) * Len(program) + (Len(program) - Conflicts(c)) * TotalGates

(***************************************************************************)
(* The seeds.                                                              *)
(***************************************************************************)

UnrestrictedFields == UNION {FieldsOf[form] : form \in Unrestricted}

\* restore_unrestricted_features
Restored(c) ==
  [uses  |-> [f \in Fields |-> IF f \in UnrestrictedFields THEN MaxUses[f] ELSE c.uses[f]],
   forms |-> c.forms \cup Unrestricted]

BadSelectable == Fields \ UnrestrictedFields

\* field_selectable_for_ga_restriction
Selectable == Fields \ (UnrestrictedFields \cup RegisterFields)

\* restore_unmutatable_fields
WithUnmutatable(c) ==
  [c EXCEPT !.uses = [f \in Fields |-> IF f \in Selectable THEN @[f] ELSE Bit]]

BadObserved ==
  LET last == program[Len(program)]
  IN  [uses  |-> [f \in Fields |-> IF f \in FieldsOf[last.form] THEN {last.value[f]} ELSE {}],
       forms |-> {program[k].form : k \in DOMAIN program}]

\* ISACandidate::from_program
Observed ==
  [uses  |-> [f \in Fields |->
                {program[k].value[f] : k \in {j \in DOMAIN program :
                                                 f \in FieldsOf[program[j].form]}}],
   forms |-> {program[k].form : k \in DOMAIN program}]

BadRepairForm(c, form) == [c EXCEPT !.forms = @ \cup {form}]

\* repair_form: the form is made active and each of its fields gets the value
\* 0, which repair_value_for_field makes of the first encoding of the form.
RepairForm(c, form) ==
  [uses  |-> [f \in Fields |-> IF f \in FieldsOf[form] THEN c.uses[f] \cup {0} ELSE c.uses[f]],
   forms |-> c.forms \cup {form}]

RepairIfEmpty(c, form) == IF HasEncoding(c, form) THEN c ELSE RepairForm(c, form)

\* With no form named, the first active form is repaired, or else the first.
RepairAny(c, n) ==
  IF \E form \in FormsOf(n) : HasEncoding(c, form) THEN c
  ELSE LET active == {k \in DOMAIN Instructions[n] : Instructions[n][k] \in c.forms}
       IN  RepairForm(c, Instructions[n][IF active = {} THEN 1 ELSE Min(active)])

\* The mandatory forms of instruction n, in the order of their HashSet.
RepairMandatory(c, n) ==
  LET order == SetToSeq(Mandatory[n])
      after[k \in 0 .. Cardinality(Mandatory[n])] ==
        IF k = 0 THEN c ELSE LET before == after[k - 1] IN RepairIfEmpty(before, order[k])
  IN  after[Cardinality(Mandatory[n])]

\* repair_mandatory_forms
Repaired(c) ==
  LET Repair(d, n) ==
        IF n \notin DOMAIN Mandatory THEN d
        ELSE IF Mandatory[n] = {} THEN RepairAny(d, n)
        ELSE RepairMandatory(d, n)
      after[n \in 0 .. Len(Instructions)] ==
        IF n = 0 THEN c ELSE LET before == after[n - 1] IN Repair(before, n)
  IN  after[Len(Instructions)]

\* minimum_isa_features_for_program
MinIsa == WithUnmutatable(Restored(Repaired(Observed)))

Seeds == [k \in 1 .. PopulationSize \div 3 |-> MaxIsa] \o <<MinIsa, MinIsa>>

\* random_isa_candidate: a field that may be restricted gets at least one value.
RandomCandidates ==
  {[uses |-> [f \in Fields |-> IF f \in Selectable THEN u[f] ELSE Bit],
    forms |-> g \cup Unrestricted] :
      u \in [Selectable -> (SUBSET Bit) \ {{}}], g \in SUBSET (Forms \ Unrestricted)}

(***************************************************************************)
(* Crossover and mutation.                                                 *)
(***************************************************************************)

\* The children of a and b that take the fields in fs and the forms of the
\* instructions in ns from the other parent.
Swapped(a, b, fs, ns) ==
  LET swappedForms == UNION {FormsOf(n) : n \in ns}
  IN  Restored([uses  |-> [f \in Fields |-> IF f \in fs THEN b.uses[f] ELSE a.uses[f]],
                forms |-> (a.forms \ swappedForms) \cup (b.forms \cap swappedForms)])

\* reproduce
Crossovers(a, b) ==
  {<<a, b>>} \cup {<<Swapped(a, b, fs, ns), Swapped(b, a, fs, ns)>> :
                     fs \in SUBSET Selectable, ns \in SUBSET DOMAIN Instructions}

\* A pattern is lost, a constant bit becomes variable or flips, a variable one is
\* drawn; without a pattern, one is drawn.
VariableBitsMutations(u) ==
  CASE u = {} -> (SUBSET Bit) \ {{}}
    [] u = Bit -> {{}} \cup {{v} : v \in Bit}
    [] OTHER -> {{}, Bit, Bit \ u}

\* A value is added, or one is taken away (module FieldUses).
UsesMutations(u) == {u \cup {v} : v \in Bit \ u} \cup {u \ {v} : v \in u}

FieldMutations(f, u) ==
  {u} \cup IF f \in VariableFields THEN VariableBitsMutations(u) ELSE UsesMutations(u)

\* c with the values u of its fields and, for the instructions in ns, with the
\* forms in g.
Mutated(c, u, ns, g) ==
  LET redrawn == UNION {FormsOf(n) : n \in ns}
  IN  Restored([uses  |-> [f \in Fields |-> IF f \in Selectable THEN u[f] ELSE c.uses[f]],
                forms |-> (c.forms \ redrawn) \cup (g \cap redrawn)])

\* mutate: mutate_active_forms redraws the forms of an instruction among those
\* that are not unrestricted.
Mutations(c) ==
  {Mutated(c, u, ns, g) :
     u \in {w \in [Selectable -> SUBSET Bit] :
              \A f \in Selectable : w[f] \in FieldMutations(f, c.uses[f])},
     ns \in SUBSET DOMAIN Instructions,
     g \in SUBSET (Forms \ Unrestricted)}

\* The valid ones of a sequence of candidates, in order, and their fitnesses.
ValidOnly(cs) ==
  LET valid == {k \in DOMAIN cs : Valid(cs[k])}
  IN  [n \in 1 .. Cardinality(valid) |->
         cs[CHOOSE k \in valid : Cardinality({j \in valid : j <= k}) = n]]
FitnessOf(cs) == [k \in DOMAIN cs |-> Fitness(cs[k])]

\* What can come of mutating c: itself as a sequence, or nothing if invalid.
BornOf(c) == {IF Valid(m) THEN <<m>> ELSE <<>> : m \in Mutations(c)}

\* The valid children, in order, of every draw of two of the parents.
Births(parents) ==
  LET crossed == UNION {Crossovers(a, b) : a, b \in parents}
  IN  UNION {{x \o y : x \in BornOf(pair[1]), y \in BornOf(pair[2])} : pair \in crossed}

(***************************************************************************)
(* Generations.                                                            *)
(***************************************************************************)

\* The number of members that come before i when sorted by falling fitness; the
\* sort is stable.
Rank(i, fit) ==
  Cardinality({j \in DOMAIN fit : fit[j] > fit[i]})
    + Cardinality({j \in DOMAIN fit : fit[j] = fit[i] /\ j < i})

\* The first n elements, as take and truncate leave them.
FirstOf(seq, n) == SubSeq(seq, 1, IF n < Len(seq) THEN n ELSE Len(seq))

\* The indices of a fitness vector, best first.
BadSorted(fit) ==
  [k \in DOMAIN fit |-> CHOOSE i \in DOMAIN fit : Rank(i, fit) = Len(fit) - k]
Sorted(fit) == [k \in DOMAIN fit |-> CHOOSE i \in DOMAIN fit : Rank(i, fit) = k - 1]

Elites(fit) == FirstOf(Sorted(fit), EliteCount)

\* set_candidate_fitnesses
Recorded(fit) ==
  IF \A k \in DOMAIN fit : fit[k] = 0 THEN [k \in DOMAIN fit |-> 1] ELSE fit

Init ==
  /\ program \in GivenPrograms
  /\ candidates = <<>>
  /\ fitnesses = <<>>
  /\ next = <<>>
  /\ nextFitness = <<>>
  /\ phase = "seed"
  /\ generation = 0

Seed ==
  /\ phase = "seed"
  /\ next' = Seeds
  /\ phase' = "random"
  /\ UNCHANGED <<program, candidates, fitnesses, nextFitness, generation>>

\* An invalid random candidate is drawn again.
AddRandom ==
  /\ phase = "random"
  /\ Len(next) < PopulationSize
  /\ \E c \in RandomCandidates :
       /\ Valid(c)
       /\ next' = Append(next, c)
       /\ nextFitness' = Append(nextFitness, Fitness(c))
  /\ UNCHANGED <<program, candidates, fitnesses, phase, generation>>

\* The fitnesses are computed again for seeds and random candidates together,
\* and those of invalid candidates are left out.
FinishSeeding ==
  /\ phase = "random"
  /\ Len(next) >= PopulationSize
  /\ candidates' = next
  /\ fitnesses' = Recorded(FitnessOf(ValidOnly(next)))
  /\ next' = <<>>
  /\ nextFitness' = <<>>
  /\ phase' = "select"
  /\ UNCHANGED <<program, generation>>

BadSelectElites ==
  /\ phase = "select" /\ fitnesses # <<>> /\ generation < MaxGenerations
  /\ next' = [k \in DOMAIN Elites(fitnesses) |-> candidates[Elites(fitnesses)[k]]]
  /\ nextFitness' = SubSeq(fitnesses, 1, Len(next'))
  /\ phase' = "breed"
  /\ UNCHANGED <<program, candidates, fitnesses, generation>>

\* WeightedIndex::new fails on an empty list, and the program ends there.
SelectElites ==
  /\ phase = "select"
  /\ fitnesses # <<>>
  /\ generation < MaxGenerations
  /\ next' = [k \in DOMAIN Elites(fitnesses) |-> candidates[Elites(fitnesses)[k]]]
  /\ nextFitness' = [k \in DOMAIN Elites(fitnesses) |-> fitnesses[Elites(fitnesses)[k]]]
  /\ phase' = "breed"
  /\ UNCHANGED <<program, candidates, fitnesses, generation>>

\* What the roulette can draw: an index of the fitnesses with some weight.
Parents == {candidates[i] : i \in {j \in DOMAIN fitnesses : fitnesses[j] > 0}}

\* Two parents, their two children, and the valid ones of these are appended
\* while there is room.  The code makes a batch of children before it looks at
\* the first one; the parents are the same for the whole generation.
Breed ==
  /\ phase = "breed"
  /\ Len(next) < PopulationSize
  /\ \E children \in Births(Parents) :
       LET born == FirstOf(children, PopulationSize - Len(next))
       IN  /\ next' = next \o born
           /\ nextFitness' = nextFitness \o FitnessOf(born)
  /\ UNCHANGED <<program, candidates, fitnesses, phase, generation>>

FinishGeneration ==
  /\ phase = "breed"
  /\ Len(next) >= PopulationSize
  /\ candidates' = FirstOf(next, PopulationSize)
  /\ fitnesses' = Recorded(FirstOf(nextFitness, PopulationSize))
  /\ next' = <<>>
  /\ nextFitness' = <<>>
  /\ phase' = "select"
  /\ generation' = generation + 1
  /\ UNCHANGED program

Next ==
  \/ Seed \/ AddRandom \/ FinishSeeding
  \/ SelectElites \/ Breed \/ FinishGeneration

Spec == Init /\ [][Next]_vars

------------------------------------------------------------------------------

\* Every state component stays in its domain, and a generation is complete.
TypeOK ==
  /\ program \in GivenPrograms
  /\ candidates \in Seq(Candidates) /\ next \in Seq(Candidates)
  /\ fitnesses \in Seq(Nat) /\ nextFitness \in Seq(Nat)
  /\ phase \in {"seed", "random", "select", "breed"}
  /\ generation \in 0 .. MaxGenerations
  /\ phase = "select" => Len(candidates) >= PopulationSize

\* The two parallel vectors agree: what is recorded for a member, and what the
\* elites and the roulette go by, is that member's own fitness.
FitnessIsOwn ==
  /\ phase \in {"select", "breed"} => fitnesses = FitnessOf(candidates)
  /\ phase = "breed" => nextFitness = FitnessOf(next)

\* The invariant of the generations: the domains, and no fitness of another.
GenerationInvariant == TypeOK /\ FitnessIsOwn

\* Whatever is swapped and mutated, every member of a generation keeps what the
\* caller asked for: a mandatory form can be encoded, an unrestricted form has
\* all its encodings, and each static instruction of the program is supported.  No
\* register is ever taken out of a register operand.
RequirementsKept ==
  phase \in {"select", "breed"} =>
    \A k \in DOMAIN candidates :
      LET c == candidates[k]
      IN  /\ MandatoryKept(c)
          /\ \A form \in Unrestricted : EncodingsOf(form, MaxUses) \subseteq Encodings(c)
          /\ StaticInstructionsKept(c)
          /\ \A f \in RegisterFields : c.uses[f] = Bit

\* "the minimum ISA which does not break any instructions": every seed supports
\* the whole program, after the repairs and restorations too.
SeedsBreakNothing ==
  phase = "random" => \A k \in DOMAIN Seeds : Conflicts(next[k]) = 0

\* What the caller is promised of the seeds and of every later generation.
PromisesKept == SeedsBreakNothing /\ RequirementsKept

SelectsTop ==
  phase = "select" /\ phase' = "breed" =>
    \A k \in DOMAIN next' :
      Cardinality({i \in DOMAIN candidates : Fitness(candidates[i]) > Fitness(next'[k])}) < k

\* "Take the top self.elite_candidate_count candidates": fewer than k members
\* are fitter than the k-th one that is kept.
TopCandidatesKept == [][SelectsTop]_vars

(***************************************************************************)
(* What the comment on fixed_field_uses says.                              *)
(***************************************************************************)

\* "Field uses which candidates must preserve exactly."
FixedFieldUsesPreserved ==
  \A k \in DOMAIN candidates : \A f \in DOMAIN FixedUses : candidates[k].uses[f] = FixedUses[f]
==============================================================================
