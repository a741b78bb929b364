SPECIFICATION ConnectSpec
CONSTANTS
  NoToken = NoToken
  tok = tok
  other = other
  Setups <- AllSetups
  MaxPackets = 3
  Bad = {3}
  SourceCap = 1
  FramesCap = 1
  BufCap = 2
  BatchMax = 2
  WireCap = 2
  OutCap = 1
  RetryMin = 1
  RetryMax = 3
CHECK_DEADLOCK FALSE
INVARIANTS
    RecordsArriveOnce
    EndsTellTheTruth
PROPERTIES
    SessionsTurnOver
