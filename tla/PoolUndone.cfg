SPECIFICATION Spec

CONSTANTS
  Jobs = {1, 2, 3}
  Workers = {w1}
  NoClaim = NoClaim
  ClaimBatchSize = 1
  MaxRetries = 0
  RetryBackoff = 1
  JobTimeout = 1
  StuckJobTimeout = 2
  AttemptCap = 2
  MaxFaults = 0

PROPERTIES
  DoneIsFinal
