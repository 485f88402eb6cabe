SPECIFICATION Spec

CONSTANTS
  Handlers = {h1, h2}
  MaxPayments = 1
  Webhooks = TRUE
  Delayed = FALSE
  MaxCrashes = 0
  MaxErrors = 0

CHECK_DEADLOCK FALSE

PROPERTIES
  PurchaseKept
