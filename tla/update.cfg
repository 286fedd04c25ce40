SPECIFICATION FairSpec
CONSTANTS
  MaxCommit = 2
  MaxFailures = 3
INVARIANTS
  TypeOK
  BootsComplete
PROPERTIES
  Propagates
CHECK_DEADLOCK FALSE
