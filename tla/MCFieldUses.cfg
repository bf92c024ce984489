CONSTANTS
  Width = 3
  GivenUses <- MCGivenUses
SPECIFICATION MCSpec
INVARIANTS FieldInvariant CubeInvariant ExactDifference CubesAreExact
PROPERTIES CoveragePreserved MutationsMoveOneValue MergeReturnsEventually
CHECK_DEADLOCK FALSE
