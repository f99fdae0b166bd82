CONSTANTS
  W = 8
  Regs <- MCRegs
  Programs <- ErrantPrograms
  Starts <- NegativeStarts
  MEM_WORDS = 2
  MAGIC = 222
SPECIFICATION Spec
INVARIANT ResultsAreTheManuals
