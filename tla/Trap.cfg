SPECIFICATION FairSpec
CONSTANTS
  STACK_BTM = 45
  MAGIC = 7
  Programs <- MCPrograms
  MaxRaised = 3
INVARIANTS
  KeepsToItsStack
  TrapInv
  WellBehaved
  PrintsNoTrap
  NestedByUrgency
  ServedExactlyOnce
PROPERTIES
  EndsServed
  ImplementsTrapService
  ProgramEnds
  EveryTrapServed
  ServicesEnd
