----------------------------- MODULE FieldEncodings -----------------------------
(***************************************************************************)
(* What an ISA candidate allows, seen from its field uses: decoding,       *)
(* legality, the encodings of a form (isa_specification.rs), the candidate *)
(* of a program (isa_optimization.rs), the drawing of legal instructions   *)
(* (superoptimization.rs) and the patterns handed to GreenThumb            *)
(* (greenthumb_restrictions.rs).                                           *)
(*                                                                         *)
(* A word is a sequence over "0" and "1".  Every FieldUses is the set of   *)
(* its patterns: a VariableBits has at most one.  And is a sequence of     *)
(* predicates, flattened, and Always the empty one.                        *)
(***************************************************************************)
EXTENDS BitPatterns

CONSTANTS
  Instructions,  \* sequence of sequences of [fields, when, excluded]
  GivenForms,    \* bound: the active forms tried with random field uses
  MaxProgram     \* bound: the length of the observed program

Field == [name : STRING, pattern : Seq(Bit), uses : BOOLEAN, immediate : BOOLEAN]

\* bit_eq refuses a variable bit.
Predicate ==
  [op : {"Never"}]
    \cup [op : {"BitEq"}, index : Nat, value : Concrete]
    \cup [op : {"FieldEq"}, field : STRING, value : Seq(Bit)]
    \cup [op : {"FieldIn"}, field : STRING, values : SUBSET Seq(Bit)]

ASSUME InstructionsAssumption ==
  Instructions \in
    Seq(Seq([fields : Seq(Field) \ {<<>>}, when : Seq(Predicate), excluded : BOOLEAN]))

Forms == UNION {{<<n, k>> : k \in DOMAIN Instructions[n]} : n \in DOMAIN Instructions}
FormOf(f) == Instructions[f[1]][f[2]]
FieldsOf(f) == FormOf(f).fields

\* How many bits the fields before field i have.
Offsets ==
  [f \in Forms |->
     LET Before[i \in 0 .. Len(FieldsOf(f))] ==
           IF i = 0 THEN 0 ELSE Before[i - 1] + Len(FieldsOf(f)[i].pattern)
     IN  [i \in 1 .. Len(FieldsOf(f)) + 1 |-> Before[i - 1]]]
Offset(f, i) == Offsets[f][i]
WidthOf(f) == Offset(f, Len(FieldsOf(f)) + 1)

AllFields == UNION {ToSet(FieldsOf(f)) : f \in Forms}
Named == {g \in AllFields : g.name # ""}
Names == {g.name : g \in Named}
FieldNamed(name) == CHOOSE g \in Named : g.name = name
WordsOf == [f \in Forms |-> [1 .. WidthOf(f) -> Concrete]]
Words == UNION {WordsOf[f] : f \in Forms}

\* The forms agree on a field, and all its bits are variable.
ASSUME FieldsAssumption ==
  \A g \in Named :
    /\ \A k \in DOMAIN g.pattern : g.pattern[k] = "x"
    /\ \A h \in Named :
         g.name = h.name => g.uses = h.uses /\ Len(g.pattern) = Len(h.pattern)

\* A predicate tests a bit of the form, or a field that the form has once.
ASSUME PredicatesAssumption ==
  \A f \in Forms : \A k \in DOMAIN FormOf(f).when :
    LET pred == FormOf(f).when[k]
    IN  /\ pred.op = "BitEq" => pred.index \in 1 .. WidthOf(f)
        /\ pred.op \in {"FieldEq", "FieldIn"} =>
             /\ pred.field # ""
             /\ \E i \in DOMAIN FieldsOf(f) : \A j \in DOMAIN FieldsOf(f) :
                  FieldsOf(f)[j].name = pred.field <=> j = i

ASSUME GivenFormsAssumption == GivenForms \subseteq SUBSET Forms

VARIABLES
  uses,     \* valid_field_uses: the patterns of every field
  forms,    \* active_forms
  program,  \* the words from_program has gone through
  stage,    \* "observe", "ready", "draw" or "drawn"
  drawn     \* the form and the bits select_random_instruction has so far

vars == <<uses, forms, program, stage, drawn>>

(***************************************************************************)
(* Decoding and legality.                                                  *)
(***************************************************************************)

MatchesBits(p, w) == Len(p) = Len(w) /\ \A i \in DOMAIN p : p[i] \in {"x", w[i]}

FieldBits(f, w, i) == SubSeq(w, Offset(f, i) + 1, Offset(f, i + 1))

\* field_value: that of the first field of the name.
FieldValue(f, w, name) ==
  LET is == {i \in DOMAIN FieldsOf(f) : FieldsOf(f)[i].name = name}
  IN  IF is = {} THEN <<>> ELSE FieldBits(f, w, Min(is))

Check(pred, f, w) ==
  \/ pred.op = "BitEq" /\ w[pred.index] = pred.value
  \/ pred.op = "FieldEq" /\ FieldValue(f, w, pred.field) = pred.value
  \/ pred.op = "FieldIn" /\ \E v \in pred.values : MatchesBits(v, FieldValue(f, w, pred.field))

WhenHolds(f, w) == \A k \in DOMAIN FormOf(f).when : Check(FormOf(f).when[k], f, w)

Matches(f, w) ==
  /\ WidthOf(f) = Len(w)
  /\ \A i \in DOMAIN FieldsOf(f) : MatchesBits(FieldsOf(f)[i].pattern, FieldBits(f, w, i))
  /\ WhenHolds(f, w)

\* The forms of instruction n that match.
FindMatch(n, w) == {f \in {<<n, k>> : k \in DOMAIN Instructions[n]} : Matches(f, w)}

\* Two forms of one instruction are ambiguous; the first instruction that is
\* not decodes the word, and without one the program panics.
Decodings == [w \in Words |-> {n \in DOMAIN Instructions : Cardinality(FindMatch(n, w)) = 1}]
Decode(w) == CHOOSE f \in FindMatch(Min(Decodings[w]), w) : TRUE

\* instruction_valid_under_field_uses, for words without variable bits.
Valid(f, w, u) ==
  /\ WhenHolds(f, w)
  /\ \A i \in DOMAIN FieldsOf(f) :
       FieldsOf(f)[i].name # "" =>
         \E p \in u[FieldsOf(f)[i].name] : MatchesBits(p, FieldBits(f, w, i))

Supports(u, active, f, w) == f \in active /\ Valid(f, w, u)

(***************************************************************************)
(* fields_to_encodings.                                                    *)
(***************************************************************************)

PatternsOf(width) == [1 .. width -> Bit]

MergeOf(ps) ==
  LET Settled[qs \in SUBSET PatternsOf(Len(CHOOSE p \in ps : TRUE))] ==
        IF NextRound(qs) = qs THEN qs ELSE Settled[NextRound(qs)]
  IN  IF ps = {} THEN {} ELSE Settled[RemoveSubsumed(ps)]

BadConstrainPattern(p, v) ==
  IF Len(p) # Len(v) THEN {} ELSE {[i \in DOMAIN p |-> IF v[i] = "x" THEN p[i] ELSE v[i]]}

\* Nothing, or p with its variable bits fixed as v has them.
ConstrainPattern(p, v) ==
  IF Len(p) = Len(v) /\ \A i \in DOMAIN p : "x" \in {p[i], v[i]} \/ p[i] = v[i]
  THEN {[i \in DOMAIN p |-> IF p[i] = "x" THEN v[i] ELSE p[i]]}
  ELSE {}

\* BitEq on the patterns of field i, when its position lies in the field.
ConstrainBit(pred, ps, f, i) ==
  LET k == pred.index - Offset(f, i)
  IN  IF k \notin 1 .. Len(FieldsOf(f)[i].pattern) THEN ps
      ELSE {[p EXCEPT ![k] = pred.value] : p \in {q \in ps : q[k] \in {"x", pred.value}}}

ApplyConstraint(pred, ps, f, i) ==
  CASE pred.op = "BitEq" -> ConstrainBit(pred, ps, f, i)
    [] pred.op = "FieldEq" /\ pred.field = FieldsOf(f)[i].name ->
         UNION {ConstrainPattern(p, pred.value) : p \in ps}
    [] pred.op = "FieldIn" /\ pred.field = FieldsOf(f)[i].name ->
         MergeOf(UNION {ConstrainPattern(p, v) : p \in ps, v \in pred.values})
    [] pred.op = "Never" -> {}
    [] OTHER -> ps

BadConstrained(f, i, p) == {p}

\* constrain_variable_bits, for pattern p of field i.
Constrained(f, i, p) ==
  LET After[k \in 0 .. Len(FormOf(f).when)] ==
        IF k = 0 THEN {p} ELSE ApplyConstraint(FormOf(f).when[k], After[k - 1], f, i)
  IN  After[Len(FormOf(f).when)]

\* An unnamed field is constant.
UsesOf(f, i, u) ==
  IF FieldsOf(f)[i].name = "" THEN {FieldsOf(f)[i].pattern} ELSE u[FieldsOf(f)[i].name]

FieldEncodingsOf(f, i, u) == UNION {Constrained(f, i, p) : p \in UsesOf(f, i, u)}

Encodings(f, u) ==
  LET UpTo[i \in 0 .. Len(FieldsOf(f))] ==
        IF i = 0 THEN {<<>>}
        ELSE {e \o p : e \in UpTo[i - 1], p \in FieldEncodingsOf(f, i, u)}
  IN  UpTo[Len(FieldsOf(f))]

\* new_from_single_instruction: a pattern with n variable bits counts 2^n.
LegalCount(f, u) ==
  MapThenSumSet(LAMBDA e : 2 ^ Cardinality({i \in DOMAIN e : e[i] = "x"}), Encodings(f, u))

BadAllowPatterns(u, active) == UNION {Encodings(f, u) : f \in Forms}

\* GreenthumbRestrictionSet::from_candidate.  The options leave out whole
\* instructions.
AllowPatterns(u, active) ==
  UNION {Encodings(f, u) : f \in {g \in active : ~FormOf(g).excluded}}

(***************************************************************************)
(* Where candidates come from.                                             *)
(***************************************************************************)

EmptyUses == [name \in Names |-> {}]

MaxUses == [name \in Names |-> {FieldNamed(name).pattern}]

RandomBitPatterns(w) == PatternsOf(w)
RandomConcretePatterns(w) == [1 .. w -> Concrete]

\* random_field_use: merged words for Uses and one pattern for VariableBits.
RandomFieldUses(name) ==
  LET w == Len(FieldNamed(name).pattern)
  IN  IF FieldNamed(name).uses
      THEN {MergeOf(ws) : ws \in SUBSET RandomConcretePatterns(w) \ {{}}}
      ELSE {{p} : p \in RandomBitPatterns(w)}

RandomUses ==
  {u \in [Names -> UNION {RandomFieldUses(name) : name \in Names}] :
     \A name \in Names : u[name] \in RandomFieldUses(name)}

\* The smallest pattern over the patterns ps.
Hull(ps) ==
  LET p == CHOOSE q \in ps : TRUE
  IN  {[i \in DOMAIN p |-> IF \A q \in ps : q[i] = p[i] THEN p[i] ELSE "x"]}

Observed(f, w, name) ==
  {FieldBits(f, w, i) : i \in {j \in DOMAIN FieldsOf(f) : FieldsOf(f)[j].name = name}}

BadWidened(f, w) ==
  [name \in Names |-> IF Observed(f, w, name) = {} THEN uses[name] ELSE Observed(f, w, name)]

Widened(f, w) ==
  [name \in Names |->
     LET values == Observed(f, w, name)
     IN  IF values = {} THEN uses[name]
         ELSE IF FieldNamed(name).uses THEN uses[name] \cup values
         ELSE Hull(uses[name] \cup values)]

------------------------------------------------------------------------------

Idle == [form |-> <<1, 1>>, field |-> 1, bits |-> <<>>]

Init ==
  /\ \/ stage = "observe" /\ uses = EmptyUses /\ forms = {}
     \/ stage = "ready" /\ uses = MaxUses /\ forms = Forms
     \/ stage = "ready" /\ uses \in RandomUses /\ forms \in GivenForms
  /\ program = <<>>
  /\ drawn = Idle

\* from_program goes through the decoded program.
Observe ==
  /\ stage = "observe" /\ Len(program) < MaxProgram
  /\ \E w \in Words :
       /\ Decodings[w] # {}
       /\ uses' = Widened(Decode(w), w)
       /\ forms' = forms \cup {Decode(w)}
       /\ program' = Append(program, w)
  /\ UNCHANGED <<stage, drawn>>

MergeUses ==
  /\ stage = "observe" /\ program # <<>>
  /\ uses' = [name \in Names |->
                IF FieldNamed(name).uses THEN MergeOf(uses[name]) ELSE uses[name]]
  /\ stage' = "ready"
  /\ UNCHANGED <<forms, program, drawn>>

\* select_random_instruction draws a form by its count, and then its fields.
SelectForm ==
  /\ stage = "ready"
  /\ \E f \in Forms :
       LegalCount(f, uses) > 0 /\ drawn' = [form |-> f, field |-> 1, bits |-> <<>>]
  /\ stage' = "draw"
  /\ UNCHANGED <<uses, forms, program>>

Drawing == stage = "draw" /\ drawn.field <= Len(FieldsOf(drawn.form))
PatternChoices == UsesOf(drawn.form, drawn.field, uses)

\* The words with the variable bits of a pattern drawn.
Filled(c) == {v \in [DOMAIN c -> Concrete] : MatchesBits(c, v)}

DrawField ==
  /\ Drawing
  /\ \E p \in PatternChoices : \E c \in Constrained(drawn.form, drawn.field, p) :
     \E v \in Filled(c) : drawn' = [drawn EXCEPT !.field = @ + 1, !.bits = @ \o v]
  /\ UNCHANGED <<uses, forms, program, stage>>

StartOver == drawn' = [drawn EXCEPT !.field = 1, !.bits = <<>>]

\* The pattern drawn cannot meet the predicate of the form.
RetryField ==
  /\ Drawing
  /\ \/ PatternChoices = {}
     \/ \E p \in PatternChoices : Constrained(drawn.form, drawn.field, p) = {}
  /\ StartOver
  /\ UNCHANGED <<uses, forms, program, stage>>

BadCheckDrawn ==
  /\ stage = "draw" /\ drawn.field > Len(FieldsOf(drawn.form))
  /\ stage' = "drawn" /\ UNCHANGED <<uses, forms, program, drawn>>

CheckDrawn ==
  /\ stage = "draw" /\ ~Drawing
  /\ \/ WhenHolds(drawn.form, drawn.bits) /\ stage' = "drawn" /\ UNCHANGED drawn
     \/ ~WhenHolds(drawn.form, drawn.bits) /\ StartOver /\ UNCHANGED stage
  /\ UNCHANGED <<uses, forms, program>>

\* The field of the form that equals field i: the form was cloned, and the last one wins.
SelectedField(f, i) == Max({j \in DOMAIN FieldsOf(f) : FieldsOf(f)[j] = FieldsOf(f)[i]})

\* An immediate with one bit flipped; otherwise a value as one is drawn.
ChangedValues(f, w, i) ==
  LET value == FieldBits(f, w, i)
  IN  IF FieldsOf(f)[i].immediate
      THEN {[value EXCEPT ![k] = IF @ = "1" THEN "0" ELSE "1"] : k \in DOMAIN value}
      ELSE UNION {Filled(c) : c \in FieldEncodingsOf(f, i, uses)}

\* Bits first + 1 on become those of v.
WithBits(bits, first, v) ==
  [k \in DOMAIN bits |-> IF k - first \in DOMAIN v THEN v[k - first] ELSE bits[k]]

BadChangeField ==
  /\ stage = "drawn"
  /\ \E i \in {j \in DOMAIN FieldsOf(drawn.form) : FieldsOf(drawn.form)[j].name # ""} :
     \E v \in ChangedValues(drawn.form, drawn.bits, i) :
       drawn' = [drawn EXCEPT !.bits = WithBits(@, Offset(drawn.form, i), v)]
  /\ UNCHANGED <<uses, forms, program, stage>>

\* change_selected_field on an instruction of the program; a word that is not valid
\* is no proposal.
ChangeField ==
  /\ stage = "drawn"
  /\ \E i \in {j \in DOMAIN FieldsOf(drawn.form) : FieldsOf(drawn.form)[j].name # ""} :
       LET selected == SelectedField(drawn.form, i)
       IN  \E v \in ChangedValues(drawn.form, drawn.bits, selected) :
             LET changed == WithBits(drawn.bits, Offset(drawn.form, selected), v)
             IN  /\ Valid(drawn.form, changed, uses)
                 /\ drawn' = [drawn EXCEPT !.bits = changed]
  /\ UNCHANGED <<uses, forms, program, stage>>

UseDrawn ==
  /\ stage = "drawn"
  /\ stage' = "ready" /\ drawn' = Idle
  /\ UNCHANGED <<uses, forms, program>>

Next ==
  \/ Observe \/ MergeUses
  \/ SelectForm \/ DrawField \/ RetryField \/ CheckDrawn \/ ChangeField \/ UseDrawn

Spec == Init /\ [][Next]_vars

------------------------------------------------------------------------------

\* The words of a form that its predicate and the field uses allow.
Legal(f, w) == Matches(f, w) /\ Valid(f, w, uses)
LegalWords(f) == {w \in WordsOf[f] : Legal(f, w)}

\* constrain_variable_bits reads variable bits in the value of a FieldEq as
\* wildcards, and check compares for equality.  The parser accepts such a value;
\* no ISA of the repository has one.
Definite(f) ==
  \A k \in DOMAIN FormOf(f).when :
    FormOf(f).when[k].op = "FieldEq" => "x" \notin ToSet(FormOf(f).when[k].value)

\* Every state component stays in its domain, and a VariableBits has one pattern.
TypeOK ==
  /\ DOMAIN uses = Names
  /\ \A name \in Names :
       /\ uses[name] \subseteq PatternsOf(Len(FieldNamed(name).pattern))
       /\ ~FieldNamed(name).uses => Cardinality(uses[name]) <= 1
  /\ forms \subseteq Forms
  /\ program \in Seq(Words)
  /\ stage \in {"observe", "ready", "draw", "drawn"}
  /\ stage \in {"draw", "drawn"} => drawn.form \in Forms

\* The candidate made from a program supports every instruction of it: what is
\* observed or merged later never takes an earlier use away.
ProgramSupported ==
  \A k \in DOMAIN program : Supports(uses, forms, Decode(program[k]), program[k])

\* The encodings of a form, made by constraining patterns, are exactly the words
\* that the check of an instruction word accepts, unless a FieldEq has wildcards.
EncodingsAreLegalWords ==
  stage = "ready" =>
    \A f \in {g \in Forms : Definite(g)} :
      {w \in WordsOf[f] : \E e \in Encodings(f, uses) : MatchesBits(e, w)} = LegalWords(f)

\* A drawn instruction is legal, whatever the retries on the way and however often
\* its fields are changed afterwards, and although with wildcards in a FieldEq the
\* patterns it is drawn from are not.
DrawnIsLegal == stage = "drawn" => Legal(drawn.form, drawn.bits)

\* The invariant of observing and drawing: the domains, and the two facts above.
EncodingInvariant == TypeOK /\ ProgramSupported /\ DrawnIsLegal

\* Every pattern of GreenThumb's restrictions allows only words that decode to an
\* instruction the candidate supports, and all of those it should.
AllowedIsSupported ==
  stage = "ready" =>
    \A w \in Words :
      (\E e \in AllowPatterns(uses, forms) : MatchesBits(e, w))
        <=> /\ Decodings[w] # {}
            /\ Supports(uses, forms, Decode(w), w)
            /\ ~FormOf(Decode(w)).excluded

\* The two ways of saying what a candidate allows, by patterns and word by word,
\* agree: for the encodings of a form, and for GreenThumb's restrictions.
PatternsAreExact == EncodingsAreLegalWords /\ AllowedIsSupported

\* No retry is without hope: whenever the drawing starts, the form has a word it
\* can end with, unless a FieldEq has wildcards.
SelectedCanFinish ==
  stage = "draw" /\ drawn.bits = <<>> /\ Definite(drawn.form) =>
    \E w \in WordsOf[drawn.form] : Legal(drawn.form, w)

\* No word is of two forms.  Then decoding finds the form of every word.
Unambiguous ==
  \A w \in Words, f \in Forms, g \in Forms : Matches(f, w) /\ Matches(g, w) => f = g

\* Whatever GreenThumb is allowed has no wildcard to read in two ways.
AllowedAreDefinite == \A f \in Forms : FormOf(f).excluded \/ Definite(f)

(***************************************************************************)
(* The comment of SuperoptimizationCtx::new_from_single_instruction.       *)
(***************************************************************************)

\* "Generate the legal count per instruction in the ISA."
CountIsLegalCount ==
  stage = "ready" => \A f \in Forms : LegalCount(f, uses) = Cardinality(LegalWords(f))
==============================================================================
