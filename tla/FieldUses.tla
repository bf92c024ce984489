------------------------------- MODULE FieldUses -------------------------------
(***************************************************************************)
(* The patterns of one FieldUses::Uses over its life in the ISA optimizer: *)
(* FieldUses::merge (isa_specification.rs) and mutate_field, which calls   *)
(* merge on whatever it has made (isa_optimization.rs).                    *)
(***************************************************************************)
EXTENDS CubeSubtraction

CONSTANT GivenUses  \* the pattern sets merge is first called on

ASSUME GivenUsesAssumption == GivenUses \subseteq SUBSET Patterns

VARIABLES
  patterns,  \* the set merge works on
  stage      \* "subsume" on entry of merge, "round" in its loop, "settled" after

vars == <<patterns, stage>>

\* The values a draw from cubes ps can give: every variable bit is chosen.
Points(ps) == Coverage(ps)

------------------------------------------------------------------------------

Init ==
  /\ patterns \in GivenUses
  /\ stage = "subsume"

Subsume ==
  /\ stage = "subsume"
  /\ patterns' = RemoveSubsumed(patterns)
  /\ stage' = "round"

MergeRound ==
  /\ stage = "round"
  /\ NextRound(patterns) # patterns
  /\ patterns' = NextRound(patterns)
  /\ UNCHANGED stage

BadMergeReturnsNever ==
  /\ stage = "round" /\ NextRound(patterns) = patterns
  /\ stage' = "subsume" /\ UNCHANGED patterns

MergeReturns ==
  /\ stage = "round"
  /\ NextRound(patterns) = patterns
  /\ stage' = "settled"
  /\ UNCHANGED patterns

\* mutate_field draws the uncovered values and inserts one of them.
MutateAdd ==
  /\ stage = "settled"
  /\ \E point \in Points(UncoveredPatterns(patterns)) : patterns' = patterns \cup {point}
  /\ stage' = "subsume"

\* One variable bit gets fixed and half of the values go, as the comment over the
\* mutation would have it.
BadWithout(p, point) ==
  IF VariableIn(p) = {} THEN {}
  ELSE {[p EXCEPT ![CHOOSE i \in VariableIn(p) : TRUE] = "0"]}

\* A drawn pattern without a variable bit goes, and any other loses a point.
Without(p, point) ==
  IF VariableIn(p) = {} THEN {} ELSE CubeSubtract(p, point)

\* mutate_field draws one of the patterns.
MutateRemove ==
  /\ stage = "settled"
  /\ \E p \in patterns : \E point \in ValuesOf(p) :
       patterns' = (patterns \ {p}) \cup Without(p, point)
  /\ stage' = "subsume"

Merge == Subsume \/ MergeRound \/ MergeReturns

Next == Merge \/ MutateAdd \/ MutateRemove

Spec == Init /\ [][Next]_vars

\* merge is a loop without a blocking call; nothing says that another mutation
\* ever comes.
FairSpec == Spec /\ WF_vars(Merge)

------------------------------------------------------------------------------

\* Every state component stays in its domain.
TypeOK ==
  /\ patterns \in SUBSET Patterns
  /\ stage \in {"subsume", "round", "settled"}

MergeKeepsCoverage == Merge => Coverage(patterns') = Coverage(patterns)

\* Merging never gains or loses a value of the field, in any round: the pair
\* that is replaced, the cubes that stay and the ones dropped as subsumed
\* account for each other.
CoveragePreserved == [][MergeKeepsCoverage]_vars

\* Inside the loop no cube lies within another one.
NoneSubsumed ==
  stage # "subsume" =>
    \A p, q \in patterns : Covers(p, q) => p = q

\* merge returns only when no two cubes can be merged any more.
NothingLeftToMerge ==
  stage = "settled" => \A p, q \in patterns : ~CanMergeWith(p, q)

\* The invariant of merge: the patterns keep the width of the field, and the two
\* facts above.
FieldInvariant == TypeOK /\ NoneSubsumed /\ NothingLeftToMerge

MutationIsSmall ==
  LET before == Coverage(patterns)
      after == Coverage(patterns')
  IN  /\ MutateAdd => Cardinality(after \ before) = 1 /\ before \subseteq after
      /\ MutateRemove => Cardinality(before \ after) <= 1 /\ after \subseteq before

\* A mutation of a field adds exactly one value, or takes away at most one
\* (none when another cube has the point too).
MutationsMoveOneValue == [][MutationIsSmall]_vars

\* uncovered_patterns is the complement of the uses, without overlaps, so a
\* draw weighted by 2^(number of variable bits) is uniform over the values that
\* are not used.
UncoveredIsComplement ==
  LET uncovered == UncoveredPatterns(patterns)
  IN  /\ Coverage(uncovered) = Values \ Coverage(patterns)
      /\ \A p, q \in uncovered : p # q => ValuesOf(p) \cap ValuesOf(q) = {}

\* Every call of merge returns.
MergeReturnsEventually == []<>(stage = "settled")

(***************************************************************************)
(* The comment over the mutation of FieldUses::Uses.                       *)
(***************************************************************************)

\* "If a pattern is selected, a random variable bit is chosen to switch to a
\* non-variable bit.  Or, if there are no variable bits in a pattern, that
\* pattern is removed."
SwitchesOneBit ==
  MutateRemove =>
    \E p \in patterns :
      \/ VariableIn(p) = {} /\ patterns' = patterns \ {p}
      \/ \E i \in VariableIn(p), b \in Concrete :
           patterns' = (patterns \ {p}) \cup {[p EXCEPT ![i] = b]}

MutationSwitchesOneBit == [][SwitchesOneBit]_vars
==============================================================================
