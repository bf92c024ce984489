CONSTANTS
  NumBlocks = 3
  MCRegisters = {r0}
  Registers <- MCRegisters
  Graphs <- MCGraphs
SPECIFICATION FairSpec
INVARIANTS LoopInvariant ReturnsSolution BelowEverySolution
PROPERTIES ImplementsChaotic Terminates
CHECK_DEADLOCK FALSE
