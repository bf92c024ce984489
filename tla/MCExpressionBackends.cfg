CONSTANTS
  ByteBits = 1
  Terms <- MCTerms
  Instruction <- MCInstruction
SPECIFICATION Spec
INVARIANTS ValueKept BackendsAgree OneForm
CHECK_DEADLOCK FALSE
