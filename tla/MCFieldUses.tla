------------------------------ MODULE MCFieldUses ------------------------------
(***************************************************************************)
(* FieldUses from every set of at most three patterns and, beside it,      *)
(* cube_subtract on every pair of cubes.  A behaviour is one of the two:   *)
(* the mutations of a field go through cube_subtract in one step, by its   *)
(* closed form, and here that form is compared with the recursion.         *)
(***************************************************************************)
EXTENDS FieldUses

VARIABLE subtracting  \* whether this behaviour is one of cube_subtract

MCGivenUses == {{}} \cup {{p, q, r} : p, q, r \in Patterns}

allVars == <<vars, subtracting, subtractionVars>>

FieldInit ==
  /\ Init
  /\ ~subtracting
  /\ minuend = Universal /\ other = Universal /\ current = Universal
  /\ result = {}
  /\ done = TRUE

CubeInit ==
  /\ SubtractionInit
  /\ subtracting
  /\ patterns = {}
  /\ stage = "settled"

MCInit == subtracting \in BOOLEAN /\ (FieldInit \/ CubeInit)

MCNext ==
  \/ ~subtracting /\ Next /\ UNCHANGED <<subtracting, subtractionVars>>
  \/ subtracting /\ SubtractionNext /\ UNCHANGED <<vars, subtracting>>

MCSpec == MCInit /\ [][MCNext]_allVars /\ WF_vars(~subtracting /\ Merge)

\* The closed form that the other modules use for cube_subtract is what it
\* returns, and uncovered_patterns, which takes all patterns of a field away from
\* the universal cube with it, returns the complement of the field without
\* overlaps.
CubesAreExact == ReturnsClosedForm /\ UncoveredIsComplement
==============================================================================
