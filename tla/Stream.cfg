SPECIFICATION FairSpec
CONSTANTS
  ChunkLen = 16
  Pages <- FirstChunk
  Early = 3
  MinGap = 1
  MaxGap = 4
  MaxErrors = 1
INVARIANTS ChunkFollowsMetadata  DoneMeansWritten
PROPERTY TransferEnds
