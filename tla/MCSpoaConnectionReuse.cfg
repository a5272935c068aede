CONSTANTS
  Limit <- MCLimit
  MaxFrames <- MCMaxFrames
  Outcomes <- MCOutcomes
SPECIFICATION FairSpec
PROPERTIES
  ConnectionEnds
