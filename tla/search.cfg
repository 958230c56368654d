SPECIFICATION FairSpec
CONSTANTS
  Failures <- Moments
  Resolutions = {1, 2}
  Futures = {0, 1, 2, 3}
  MaxSites = 5
INVARIANT AnswerHolds
PROPERTY SearchEnds
