SPECIFICATION Spec
CONSTANTS
  P = 53
  MaxCents = 1500
  ToyPrecisions = {12, 13, 14, 16, 18}
CHECK_DEADLOCK FALSE
INVARIANTS
  CentsExact
