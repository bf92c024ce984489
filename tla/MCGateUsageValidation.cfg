CONSTANTS
  GivenNetlists <- MCOthers
  GivenEncodings <- MCEncodings
  Generations = 3
  MaxRuns <- MCMaxRuns
SPECIFICATION Spec
INVARIANTS ReturnedIsValid
