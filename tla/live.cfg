SPECIFICATION FairSpec
CONSTANTS
  Session = {s1}
  SdkId = {k1, k2}
  NoSdk = NoSdk
  Run = {r1, r2}
  NoRun = NoRun
  MaxPrompt = 1
  Conn = {c1, c2}
  NoConn = NoConn
  MaxQueue = 2
  MaxFaults = 1
  MaxCommands = 2
PROPERTIES
  DeadConnectionDropped
  Settles
  RunsEnd
ACTION_CONSTRAINT FirstNames
CHECK_DEADLOCK FALSE
