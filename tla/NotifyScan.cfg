SPECIFICATION FairSpec
CONSTANTS
  Servers = {s1, s2}
  Orders = {o1}
  BatchSize = 2
  ScanLimit = 2
  MaxEntries = 2
  MaxPosts = 2
  ScanWired = TRUE
  InitMayFail = TRUE
INVARIANTS
  TypeOK
  AcknowledgedWasPosted
  BatchesAreDisjoint
PROPERTIES
  KeepsGroup
  StreamIsDrained
