SPECIFICATION FairSpec
CONSTANTS
  Session = {s1}
  SdkId = {k1, k2, k3}
  NoSdk = NoSdk
  Run = {r1, r2}
  NoRun = NoRun
  MaxPrompt = 1
  Conn = {c1, c2}
  NoConn = NoConn
  MaxQueue = 2
  MaxFaults = 1
  MaxCommands = 2
PROPERTIES
  NoPhantomSession
CHECK_DEADLOCK FALSE
