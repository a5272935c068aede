CONSTANTS
  Parts = {"tree", "pool", "format", "file"}
  Width = 3
  V4Depth = 2
  RecordLimit = 23
  Types <- MCTypes
  Sizes <- MCSizes
  Offsets <- MCOffsets
  Records <- MCRecords
  Payloads <- MCPayloads
  BufferSize = 21
  MaxItems = 2
  MaxNodes = 3
SPECIFICATION MCSpec
INVARIANTS
  TreeIsSound
  ReaderAgrees
  OutputIsDetermined
  PoolAgrees
  MergeIsDetermined
  SectionIsRead
  FileIsRead
CHECK_DEADLOCK FALSE
