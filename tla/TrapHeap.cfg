SPECIFICATION Spec
CONSTANTS
  STACK_BTM = 0
  MAGIC = 7
  Programs <- MCPrograms
  MaxLength = 7
INVARIANTS
  HeapInv
  TopIsMostUrgent
PROPERTIES
  ImplementsTrapBag
