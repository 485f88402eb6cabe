SPECIFICATION Spec

CONSTANTS
  Passkeys = {k1}
  Prompts = {p1}
  Sessions = {s1}
  Handlers = {h1}
  MaxPasskeys = 1

INVARIANTS
  RoleChangeEndsSessions
