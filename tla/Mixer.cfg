SPECIFICATION FairSpec
CONSTANTS
  Threads <- ThreeThreads
  run_macros = 1
CHECK_DEADLOCK FALSE
INVARIANTS StreamCopies MarksKept
PROPERTY EveryonePasses
