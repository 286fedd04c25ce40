SPECIFICATION Spec
CONSTANTS
  Session = {s1}
  SdkId = {k1, k2, k3}
  NoSdk = NoSdk
  Run = {r1, r2}
  NoRun = NoRun
  MaxPrompt = 1
  Conn = {c1, c2}
  NoConn = NoConn
  MaxQueue = 2
  MaxFaults = 0
  MaxCommands = 3
PROPERTIES
  AnswerReachesAsker
CHECK_DEADLOCK FALSE
