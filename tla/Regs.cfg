SPECIFICATION FairSpec
CONSTANTS
  PageCnt = 4
  ListCnt = 4
  PerLine = 2
  Layouts <- TwoLayouts
  MaxWrites = 2
INVARIANTS RegsTypeOK CalmCommandsTakeEffect
PROPERTIES HandshakeKept CommandEnds
