CONSTANTS
  ByteBits = 1
  EffectsOf <- MCEffectsOf
  ArchitecturalRegisters <- MCRegisters
  Instructions <- MCInstructions
  Grown <- MCGrown
  Lefts <- MCLefts
  Rights <- MCRights
  LiveOutRegisters = {0}
  StackPointer = 2
  StackSize = 1
  StackDirection = "downwards"
  Memories <- MCMemories
  AddressWidth = 2
SPECIFICATION Spec
INVARIANTS EffectsTellTheRun VariablesAreOwned AnswersAreThatOfRunning
CHECK_DEADLOCK FALSE
