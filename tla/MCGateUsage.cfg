CONSTANTS
  GivenNetlists <- MCNetlists
  GivenEncodings <- MCEncodings
  Generations = 3
  MaxRuns <- MCMaxRuns
SPECIFICATION Spec
INVARIANTS WorkspaceInvariant StaticsAreOfThisRun RunsAlike ValidationMatches
