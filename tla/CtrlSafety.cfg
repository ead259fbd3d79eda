SPECIFICATION FairSpec
CONSTANTS
  p1 = p1 p2 = p2
  NoPage = NoPage
  Pages <- TwoPages
  FREE_CPAGE_COMPACT_THRSHLD = 2
  CompactionOn = TRUE
  SwitchMoves = FALSE
INVARIANTS TypeOK OwnTranslation GrantAwaited LookupKept
PROPERTIES AddressStable AccessServed
