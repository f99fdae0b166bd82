SPECIFICATION Spec
CONSTANTS
  Sources <- MCSources
  Cuts = {0, 1, 2, 3}
  CODE_WORDS = 5
INVARIANTS
  LoaderInv
  LoadedExactly
  ParsedAsAssembled
  TrampolineIsCores
