SPECIFICATION FairSpec
CONSTANTS
  Lines <- MCLines
  GROUPS = 2
  GROUP_SIZE = 2
  LINE_SIZE = 2
  Words <- MCWords
  MAGIC = 99
  Image <- MCImage
  Stores = {98}
  Idle = Idle
  None = None
  MaxAccesses = 4
INVARIANTS
  IInv
  StoresNeverReachMemory
  LevelsKnowTheSameLines
  LowerHitRatesAreFixed
PROPERTIES
  LinesStayPut
  ImplementsFirstTouch
  AccessReturns
