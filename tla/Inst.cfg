CONSTANTS
  W = 8
  Regs <- MCRegs
  Programs <- MCPrograms
  Starts <- MCStarts
  MEM_WORDS = 2
  MAGIC = 222
SPECIFICATION Spec
PROPERTY
  ImplementsManual
INVARIANTS
  CarryIsFound
  DivisionIsUndone
