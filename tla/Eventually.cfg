SPECIFICATION EventuallySpec

CONSTANTS
  Columns <- TwoMigrations
  Randoms = {r1, r2}
  MaxLaunches = 2
  MaxEdits = 1
  MaxActive = 1
  MaxFaults = 1
  Handlers = {h1, h2}

CHECK_DEADLOCK FALSE

INVARIANTS
  SecretKept
  UpIsReady
  NothingCutOff

PROPERTIES
  Honoured
  
