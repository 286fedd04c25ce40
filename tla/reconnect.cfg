SPECIFICATION FairSpec
CONSTANTS
  Session = {s1}
  SdkId = {k1, k2, k3}
  NoSdk = NoSdk
  Run = {r1, r2}
  NoRun = NoRun
  MaxPrompt = 1
  Conn = {c1, c2}
  NoConn = NoConn
  MaxQueue = 2
  MaxFaults = 2
  MaxCommands = 0
PROPERTIES
  Reconnects
CHECK_DEADLOCK FALSE
