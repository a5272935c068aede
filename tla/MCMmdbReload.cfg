CONSTANTS
  Readers = {r1, r2}
  MaxOps <- MCMaxOps
  MaxQueue <- MCMaxQueue
SPECIFICATION FairSpec
INVARIANTS
  NoLostUpdate
  OnlyDatabases
  OneDatabasePerFrame
  FramesHaveDatabase
  CountFollowsStore
PROPERTIES
  NeverOlder
  ImplementsRegister
  EventuallyFresh
  CloseTerminates
