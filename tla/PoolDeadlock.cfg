SPECIFICATION Spec
CONSTANTS
  Creators = {c1, c2}
  Others = {q1}
  MaxOpen = 2
INVARIANTS
  NoCircularWait
