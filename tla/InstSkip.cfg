CONSTANTS
  W = 8
  Regs <- MCRegs
  Programs <- SkipPrograms
  Starts <- MCStarts
  MEM_WORDS = 2
  MAGIC = 222
SPECIFICATION Spec
INVARIANT SkippedIsSurvived
