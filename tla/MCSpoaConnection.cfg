CONSTANTS
  Limit <- MCLimit
  MaxFrames <- MCMaxFrames
  Outcomes <- MCOutcomes
SPECIFICATION FairSpec
INVARIANTS
  Backpressure
  ClosedAfterAnswers
PROPERTIES
  EndsUnlessAwaitedTwice
