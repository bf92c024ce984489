SPECIFICATION PairSpec
CONSTANTS
  r0 = r0
  r1 = r1
  sp = sp
  NoRegister = NoRegister
  Registers = {r0, r1, sp}
  Sp = sp
  LiveOut = {r0, sp}
  StackSize = 1
  StackGrows = "downwards"
  ByteBits = 1
  ExtraWrite = 7
  Mismatch = 5
  MaxLength = 2
  Originals = {"MOV", "CONST", "LDRB", "STRB", "STREQ", "STR"}
  Generated = {"MOV", "MOV1", "CONST", "NEVER", "LDRB", "LDR", "STRB", "STREQ", "STR", "PUSHB", "POPB", "SUBSP"}
INVARIANTS
  ModelRefutes
  EqualIsNoDistance
  LegalReadsSuffice
CHECK_DEADLOCK FALSE
