CONSTANTS
  Parts = {"file"}
  Width = 3
  V4Depth = 2
  RecordLimit = 23
  Types <- MCTypes
  Sizes <- MCSizes
  Offsets <- MCOffsets
  Records <- MCRecords
  Payloads <- MCPayloads
  BufferSize = 21
  MaxItems = 2
  MaxNodes = 3
SPECIFICATION MCSpec
INVARIANTS
  LongArraysAreRead
CHECK_DEADLOCK FALSE
