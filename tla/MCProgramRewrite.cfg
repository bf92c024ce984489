SPECIFICATION FairSpec
CONSTANTS
  Programs = {}
  Registers <- MCRegisters
  BaseAddress = 0
  Stride = 4
  OffsetWidth = 8
  Sources <- MCSources
  Supported <- MCSupported
  RegisterBranches <- MCRegisterBranches
  LabelBranches <- MCLabelBranches
  Expansions <- MCExpansions
  Meaning <- MCMeaning
  Condition <- MCCondition
  Starts <- MCStarts
  StepCounts <- MCStepCounts
  Lost = 99999
  StaticExpansions = FALSE
INVARIANTS RewriteInvariant BehaviourKept
PROPERTY Ends
CHECK_DEADLOCK FALSE
