SPECIFICATION Spec

CONSTANTS
  Handlers = {h1}
  MaxPayments = 2
  Webhooks = TRUE
  Delayed = TRUE
  MaxCrashes = 0
  MaxErrors = 0

CHECK_DEADLOCK FALSE

INVARIANTS
  ChargedOnce
