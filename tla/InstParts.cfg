CONSTANTS
  W = 8
  Regs <- MCRegs
  Programs <- PartPrograms
  Starts <- MCStarts
  MEM_WORDS = 2
  MAGIC = 222
SPECIFICATION Spec
INVARIANT PartsAreAccessed
