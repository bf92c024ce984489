SPECIFICATION FairSpec
CONSTANTS
  r0 = r0
  r1 = r1
  sp = sp
  unused = unused
  NoRegister = NoRegister
  Registers = {r0, r1, sp}
  Sp = sp
  LiveOut = {r0, sp}
  StackSize = 1
  StackGrows = "downwards"
  ByteBits = 1
  ExtraWrite = 7
  Mismatch = 5
  Effects <- MCEffects
  Unused = unused
  Slots = 2
  Target = 2
  RandomCases = 1
  WeightIllegalRead = 2
  SameCostPenalty = 0
  Infinity = Infinity
  Allowances = {0, 2}
  MaxIterations = 2
  Legal = {"ADD1", "SUB1", "READSP", "STRB"}
  Original <- MoveOriginal
  FieldVariants <- MoveFieldVariants
  SolverStates <- MoveStates
  RandomFiles <- MoveRandomFiles
INVARIANTS SearchInvariant EqualProgramsPass
PROPERTIES NoSteepClimb SearchReturns
CHECK_DEADLOCK FALSE
