CONSTANTS
  MaxClock <- MCMaxClock
  MaxCommits <- MCMaxCommits
  MaxCrashes <- MCMaxCrashes
  MaxLag <- Prompt
  CrashPoints <- Anywhere
SPECIFICATION Spec
INVARIANTS
  PublishedIsWhole
