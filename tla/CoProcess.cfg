SPECIFICATION LiveSpec
CONSTANTS
  Programs <- MCPrograms
  Seeds = {s1, s2}
  PipeSize = 2
  Length <- MCLength
INVARIANTS ReportRight InStep
PROPERTIES Observed NoOrphan
CHECK_DEADLOCK FALSE
