SPECIFICATION Spec

CONSTANTS
  Users = {u1, u2}
  Browsers = {b1, b2}
  Sessions = {s1, s2, s3}
  Ceremonies = {c1, c2}
  Handlers = {h1, h2}
  MaxPasses = 1

SYMMETRY Interchangeable

INVARIANTS
  SessionsSound
  SecondFactorKept
  StrangersNoticed
