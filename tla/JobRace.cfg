SPECIFICATION JobSpec

CONSTANTS
  Handlers = {h1, h2}
  MaxPayments = 2
  Webhooks = TRUE
  Delayed = TRUE
  MaxCrashes = 1
  MaxErrors = 1
  Alone = h
  Jobs = {j1, j2, j3}
  MaxSize = 1
  JobsPerDay = 1
  StorageQuota = 1
  MaxFaults = 1
  MaxResends = 1
  MaxSwitches = 3

SYMMETRY Interchangeable

CHECK_DEADLOCK FALSE

INVARIANTS
  TypesOK
  UnlockIsPaid
  PaidNotedOnce
  FilesMatchRows
  LimitsHold
  HistoryTells
  PictureSize
  

PROPERTIES
  PaidStays
