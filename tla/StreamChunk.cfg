SPECIFICATION Spec
CONSTANTS
  ChunkLen = 16
  Pages <- LaterChunk
  Early = 3
  MinGap = 1
  MaxGap = 4
  MaxErrors = 0
INVARIANT ChunkFollowsMetadata
