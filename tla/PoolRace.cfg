SPECIFICATION FairSpec

CONSTANTS
  Jobs = {1, 2}
  Workers = {w1}
  NoClaim = NoClaim
  ClaimBatchSize = 2
  MaxRetries = 1
  RetryBackoff = 1
  JobTimeout = 1
  StuckJobTimeout = 2
  AttemptCap = 4
  MaxFaults = 1

INVARIANTS
  CleanStop
  Timely
  SinglePreview
  MailedOnce
  BoundedAttempts
  DoneHasPreview
  FailedExhausted
  LinksResolve
  ClaimIsSafe

PROPERTIES
  LifecycleSpec
  Settles
