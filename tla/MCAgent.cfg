CONSTANTS
  Letters <- MCLetters
  Addresses = {1, 2, 3}
  Configs <- MCConfigs
  Databases <- MCDatabases
  Frames <- MCFrames
  NoDatabase = NoDatabase
  NoEntry = NoEntry
  LookupError = LookupError
  NotArray = NotArray
  Corrupt = Corrupt
  MaxFrames = 2
  Word = 22
  Half = 11
  StackSize = 20
SPECIFICATION MCSpec
INVARIANTS
  VerdictIsRight
  CountersAgree
  IntegersAgree
  FramesAgree
  AnswersAgree
CHECK_DEADLOCK FALSE
