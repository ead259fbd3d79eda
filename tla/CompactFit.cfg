SPECIFICATION MCSpec
CONSTANTS
  p1 = p1 p2 = p2 p3 = p3 p4 = p4 p5 = p5 p6 = p6 p7 = p7 p8 = p8 p9 = p9 p10 = p10
  p11 = p11 p12 = p12 p13 = p13
  NoPage = NoPage
  PpaStart = 8
  Chans = {"wr"}
  Pages <- Pages13
  ListEntryCnt = 7
  MayNotCompress = FALSE
  MemErrors = FALSE
  PromptMemory = TRUE
  FREE_CPAGE_COMPACT_THRSHLD = 2
  Returning = {p1, p2, p3, p4, p7}
  MaxLookups = 18
INVARIANT MovesToFreeSlot
