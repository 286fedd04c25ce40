SPECIFICATION Spec
CONSTANTS
  Session = {s1}
  SdkId = {k1, k2}
  NoSdk = NoSdk
  Run = {r1, r2, r3}
  NoRun = NoRun
  MaxPrompt = 2
  Conn = {c1}
  NoConn = NoConn
  MaxQueue = 3
  MaxFaults = 0
  MaxCommands = 4
SYMMETRY SymSafety
INVARIANTS
  HonestStatus
  OneConversation
CHECK_DEADLOCK FALSE
