CONSTANTS
  MaxLength = 4
  r0 = r0
  r1 = r1
  Registers <- MCRegisters
  Programs <- MCPrograms
  BaseAddress = 0
  Stride = 1
  OffsetWidth = 3
SPECIFICATION AnalysisSpec
INVARIANTS AnalysisInvariant LiveOutIsExact
CHECK_DEADLOCK FALSE
