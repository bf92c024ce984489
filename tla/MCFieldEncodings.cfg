CONSTANTS
  Instructions <- MCInstructions
  GivenForms <- MCGivenForms
  MaxProgram = 2
SPECIFICATION Spec
INVARIANTS EncodingInvariant PatternsAreExact SelectedCanFinish
CHECK_DEADLOCK FALSE
