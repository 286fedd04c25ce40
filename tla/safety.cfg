SPECIFICATION Spec
CONSTANTS
  Session = {s1}
  SdkId = {k1, k2}
  NoSdk = NoSdk
  Run = {r1, r2}
  NoRun = NoRun
  MaxPrompt = 1
  Conn = {c1, c2}
  NoConn = NoConn
  MaxQueue = 2
  MaxFaults = 2
  MaxCommands = 3
SYMMETRY SymSafety
INVARIANTS
  TypeOK
  NoOrphanRun
  WaiterReachable
  RoutedToListener
PROPERTIES
  ResumesOnRecord
CHECK_DEADLOCK FALSE
