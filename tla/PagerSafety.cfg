SPECIFICATION Spec
CONSTANTS
  p1 = p1 p2 = p2 p3 = p3 p4 = p4 p5 = p5 p6 = p6
  NoPage = NoPage
  PpaStart = 8
  Chans = {"rd", "wr"}
  Pages <- Pages6
  ListEntryCnt = 4
  MayNotCompress = TRUE
  MemErrors = TRUE
  PromptMemory = TRUE
SYMMETRY PageSymmetry
INVARIANTS TypeOK OneManager ListsWellFormed WaysConserved  TablesAgree PagesKept NeverLost DecompressionFindsSlot
