SPECIFICATION Spec
CONSTANTS
  Servers = {s1, s2}
  Orders = {o1}
  BatchSize = 2
  ScanLimit = 2
  MaxEntries = 3
  MaxPosts = 2
  ScanWired = FALSE
  InitMayFail = TRUE
INVARIANTS
  AcknowledgedWasReceived
