SPECIFICATION Spec
CONSTANTS
  Loop = {l1, l2}
  Sock = {c1, c2, c3}
  Caller = {"user", "leave", l1, l2}
  MaxPair = 3
  MaxActs = 4
  MaxFaults = 3
INVARIANTS
  TypeOK
  RefreshOnce
  StoredTokenGood
  OneFeed
  OneLoop
  StaysOut
PROPERTIES
  ComesBack
CHECK_DEADLOCK FALSE
