CONSTANTS
  MaxClock <- MCMaxClock
  MaxCommits <- MCMaxCommits
  MaxCrashes <- MCMaxCrashes
  MaxLag <- Prompt
  CrashPoints <- AfterClone
SPECIFICATION Spec
INVARIANTS
  SkipsOnlyCurrent
