SPECIFICATION Spec
CONSTANTS
  Inputs <- AllRuns
  PA_SPACE = 1024
  MEM_SPACE = 1024
  Unset <- Unknown
  MAX_SECTIONS = 2
  SplitLines <- DiagLines
  MAX_LINES = 5
  WriteVals <- SomeValue
CHECK_DEADLOCK FALSE
INVARIANTS ImageInsideMap LinesLoaded WalkFinds SymbolsPointHome TreeSound ReadsLastWrite LinesGoHome
