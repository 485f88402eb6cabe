SPECIFICATION SettingsSpec

CONSTANTS
  Passkeys = {k1, k2, k3}
  Prompts = {p1, p2}
  Sessions = {s1}
  Handlers = {h1, h2}
  MaxPasskeys = 1
  Uploads = {u1}
  Pictures = {p1, p2}
  Limit = 2
  Window = 2
  MaxTime = 3

SYMMETRY Interchangeable

CHECK_DEADLOCK FALSE

INVARIANTS
  TypesOK
  PasskeysSound
  LogosKept
  Branded
  AtMostLimit

PROPERTIES
  EndedForGood
  OnboardedOnce
  RefusedIsRecent
