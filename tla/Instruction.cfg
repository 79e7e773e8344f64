SPECIFICATION Spec
CONSTANTS
  Byte = 1
  NUM_BPF_REGS = 2
  AluValues <- MCAluValues
  AluOperands <- MCAluOperands
  AluImms <- MCImms
  Offs = {0}
  JumpValues <- MCJumpValues
  JumpImms <- MCImms
  Junk <- MCJunk
  NUM_TMPS = 64
  Used = 4
  Slots = {1, 2, 4, 26, 27, 28, 29, 30, 31, 34}
INVARIANTS TypeOK ReadsRight
PROPERTY Implements
CHECK_DEADLOCK FALSE
