CONSTANTS
  MaxClock <- MCMaxClock
  MaxCommits <- MCMaxCommits
  MaxCrashes <- MCMaxCrashes
  MaxLag <- Late
  CrashPoints <- AfterClone
  Occurrences <- MCOccurrences
  MaxTime <- MCMaxTime
SPECIFICATION MCSpec
INVARIANTS
  PublishedIsWhole
  DiskSuitsProcess
  CheckoutIsLatest
PROPERTIES
  AlwaysUsable
  NeverEarly
  OncePerOccurrence
  DestructionEnds
  ScheduleContinues
