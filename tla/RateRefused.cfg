SPECIFICATION Spec

CONSTANTS
  Keys = {k1, k2}
  Callers = {c1}
  Limit = 2
  Window = 2
  MaxTime = 4

SYMMETRY Interchangeable

PROPERTIES
  RefusedIsFull
