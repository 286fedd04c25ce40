SPECIFICATION Spec
CONSTANTS
  Key = {k1, k2}
  Capacity = 2
  Token = 3
  Refill = 2
  MaxTime = 8
  Chat = {s1, s2, s3}
  MaxResumable = 2
  MaxClock = 2
  MaxLines = 3
  MaxFiles = 2
  MaxLogged = 14
  MaxMishaps = 3
INVARIANTS
  TypeOK
  RateKept
  LogReadsBack
  LogBounded
PROPERTIES
  LimiterKeepsPromise
  EvictsFirst
CHECK_DEADLOCK FALSE
