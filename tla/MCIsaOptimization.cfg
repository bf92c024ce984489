CONSTANTS
  Fields <- MCFields
  Forms <- MCForms
  FieldsOf <- MCFieldsOf
  Instructions <- MCInstructions
  Mandatory <- AnyForm
  Unrestricted <- MCUnrestricted
  VariableFields <- MCVariableFields
  RegisterFields <- MCRegisterFields
  FixedUses <- NothingFixed
  GivenPrograms <- MCPrograms
  PopulationSize = 4
  EliteCount = 2
  MaxGenerations = 2
SPECIFICATION Spec
INVARIANTS GenerationInvariant PromisesKept
PROPERTY TopCandidatesKept
CHECK_DEADLOCK FALSE
