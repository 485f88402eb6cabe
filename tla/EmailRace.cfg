SPECIFICATION Spec

CONSTANTS
  Users = {u1}
  Browsers = {b1, b2}
  Emails = {e1, e2}
  Handlers = {h1, h2, h3}
  MaxCodeAttempts = 2
  SignupAllowed = {u1}
  Wrong = Wrong
  NoCookie = NoCookie

SYMMETRY Interchangeable

INVARIANTS
  SpentOnce
  SameBrowser
  GuessesSound
