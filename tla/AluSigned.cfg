SPECIFICATION Spec
CONSTANTS
  Byte = 1
  NUM_BPF_REGS = 2
  AluValues <- FewValues
  AluOperands <- FewValues
  AluImms <- FewImms
  Offs <- SignedOffs
  JumpValues = {}
  JumpImms = {}
  Junk <- MCJunk
  NUM_TMPS = 64
  Used = 4
  Slots = {}
PROPERTY AcceptedMeansSame
CHECK_DEADLOCK FALSE
