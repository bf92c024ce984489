---------------------------- MODULE CubeSubtraction ----------------------------
(***************************************************************************)
(* The cubes of one width: their complement (uncovered_patterns of         *)
(* isa_optimization.rs), and BitPattern::cube_subtract as it runs.  Each   *)
(* recursive call works on the part of the first cube that is inside the   *)
(* second at the positions split so far; the halves outside are collected  *)
(* on the way.                                                             *)
(***************************************************************************)
EXTENDS BitPatterns

CONSTANT Width  \* of the cubes

ASSUME WidthAssumption == Width \in Nat

Index == 1 .. Width
Patterns == [Index -> Bit]
Values == [Index -> Concrete]

\* BitPattern::variable
Universal == [i \in Index |-> "x"]

\* uncovered_patterns takes the patterns away from the universal cube, one
\* after the other in the order of their HashSet.
UncoveredPatterns(ps) ==
  LET order == SetToSeq(ps)
      after[k \in 0 .. Cardinality(ps)] ==
        IF k = 0 THEN {Universal}
        ELSE LET before == after[k - 1] IN UNION {CubeSubtract(u, order[k]) : u \in before}
  IN  after[Cardinality(ps)]

VARIABLES
  minuend,  \* the cube cube_subtract was first called on
  other,    \* the cube to take away
  current,  \* self of the call that is running
  result,   \* the cubes collected so far
  done

subtractionVars == <<minuend, other, current, result, done>>

SubtractionInit ==
  /\ minuend \in Patterns
  /\ other \in Patterns
  /\ current = minuend
  /\ result = {}
  /\ done = FALSE

ReturnWhole ==
  /\ ~done
  /\ CubeDisjoint(current, other)
  /\ result' = result \cup {current}
  /\ done' = TRUE
  /\ UNCHANGED <<minuend, other, current>>

ReturnNothing ==
  /\ ~done
  /\ ~CubeDisjoint(current, other)
  /\ Covers(other, current)
  /\ done' = TRUE
  /\ UNCHANGED <<minuend, other, current, result>>

BadSplitAtSwapped(i) ==
  /\ result' = result \cup {[current EXCEPT ![i] = other[i]]}
  /\ current' = [current EXCEPT ![i] = Not(other[i])]

BadSplitAtOriginal(i) ==
  /\ result' = result \cup {[minuend EXCEPT ![i] = Not(other[i])]}
  /\ current' = [current EXCEPT ![i] = other[i]]

\* outside is collected and the recursive call works on inside.
SplitAt(i) ==
  /\ result' = result \cup {[current EXCEPT ![i] = Not(other[i])]}
  /\ current' = [current EXCEPT ![i] = other[i]]

\* The loop stops at the first position where current is variable and other
\* is not; running off its end is the panic that ends the function.
Split ==
  /\ ~done
  /\ ~CubeDisjoint(current, other)
  /\ ~Covers(other, current)
  /\ \E i \in SplitPositions(current, other) :
       /\ \A j \in SplitPositions(current, other) : i <= j
       /\ SplitAt(i)
  /\ UNCHANGED <<minuend, other, done>>

SubtractionNext == ReturnWhole \/ ReturnNothing \/ Split

SubtractionSpec == SubtractionInit /\ [][SubtractionNext]_subtractionVars

------------------------------------------------------------------------------

\* Every state component stays in its domain.
SubtractionTypeOK ==
  /\ minuend \in Patterns
  /\ other \in Patterns
  /\ current \in Patterns
  /\ result \in SUBSET Patterns
  /\ done \in BOOLEAN

Remaining == IF done THEN {} ELSE ValuesOf(current) \ ValuesOf(other)

\* At every call, what has been collected and what is left of the current cube
\* make up the difference of the two cubes, and nothing is in both.
Accounted ==
  /\ Coverage(result) \cup Remaining = ValuesOf(minuend) \ ValuesOf(other)
  /\ Coverage(result) \cap Remaining = {}

\* cube_subtract returns exactly the part of the first cube that the second
\* does not cover.
ExactDifference == done => Coverage(result) = ValuesOf(minuend) \ ValuesOf(other)

\* No two of the cubes returned share a value: the weights the optimizer gives
\* uncovered cubes add up to the number of uncovered values.
PairwiseDisjoint ==
  \A p, q \in result : p # q => ValuesOf(p) \cap ValuesOf(q) = {}

\* The invariant of the recursion: the domains of the variables, the account of
\* what is collected and what is left, and no overlap among the collected cubes.
CubeInvariant == SubtractionTypeOK /\ Accounted /\ PairwiseDisjoint

\* The closed form that other modules use is what the recursion returns.
ReturnsClosedForm == done => result = CubeSubtract(minuend, other)

==============================================================================
