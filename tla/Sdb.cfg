SPECIFICATION FairSdbSpec
CONSTANTS
  STACK_BTM = 13
  MAGIC = 7
  Programs <- MCPrograms
  MaxRaised = 1
  RegNames = {"a0", "mcause"}
  WatchWords = {0}
  Counts = {1, 2}
  MaxWatch = 3
  Forever = Forever
INVARIANTS
  SdbInv
  WatchpointsCurrent
  EntersLoadedOnly
PROPERTIES
  StopsAtFirstChange
  ImplementsWatchBook
  StuckStays
  CountedStepsReturn
