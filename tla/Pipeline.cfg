SPECIFICATION Spec
CONSTANTS
  None = None
  Ids = {1, 2, 3, 4, 5, 6, 7, 8, 9, 10}
  Setups <- AllSetups
  Cap = 3
  ClsCap = 3
  HistCap = 2
  WindowLen = 2
  WindowCap = 4
  Initiator <- From
  Responder <- To
  Port <- Serv
  MaxHosts = 4
  MaxKeys = 2
  MaxPairs = 2
  RecentCap = 2
  QueueSize = 2
  RingShapes <- Shapes
  RecordsCap = 2
  FirstTime = 2
  MaxTime = 5
CHECK_DEADLOCK FALSE
INVARIANTS
    StoreIsTheRecord
    ViewsTellTheSame
PROPERTIES
    ImplementsLog
    WindowsRemember
    PipelineStops
