SPECIFICATION FairSpec

CONSTANTS
  Handlers = {h1}
  MaxPayments = 2
  Webhooks = FALSE
  Delayed = TRUE
  MaxCrashes = 0
  MaxErrors = 0

CHECK_DEADLOCK FALSE

PROPERTIES
  Honoured
