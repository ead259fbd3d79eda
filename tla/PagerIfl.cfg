SPECIFICATION Spec
CONSTANTS
  p1 = p1 p2 = p2 p3 = p3 p4 = p4 p5 = p5 p6 = p6
  NoPage = NoPage
  PpaStart = 8
  Chans = {"wr"}
  Pages <- Pages6
  ListEntryCnt = 4
  MayNotCompress = FALSE
  MemErrors = FALSE
  PromptMemory = TRUE
SYMMETRY PageSymmetry
INVARIANT DetachedBeforePush
