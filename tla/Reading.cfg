SPECIFICATION MCSpec
CONSTANTS
    MaxToken = 2
    MaxMeta = 3
    MaxText = 8
    MaxFrame = 4
    Values = 3
    MaxField = 3
    Budget = 4
    Suffix = 4
    Error = Error
    SnapLen = 8
    Slack = 48
    ReplaySlack = 4
    MaxInterfaces = 2
    Hellos <- HelloSet
    Answers <- AnswerSet
    Sessions <- SessionSet
    Records <- RecordSet
    Identities <- Names
    Files <- FileSet
    Chunks <- ChunkSet
    RingBlocks <- RingSet
    Damage <- Corrupt
  None = None
  Ids = {1, 2, 3, 4}
  Setups <- AllSetups
  Heuristic = "heuristic"
  HostScanLimit = 2
  Cap = 3
  ClsCap = 3
  HistCap = 2
  Fleets <- FleetSet
  DriftQuestions <- DriftSet
  ScanQuestions <- ScanSet
  QueueQuestions <- QueueSet
  CutQuestions <- CutSet
  NoBase = NoBase
  NotFinite = NotFinite
  NoName = 0
  Unassigned = 2
  Labels = {"normal", "scan", "dos"}
  DatasetColumns <- Columns
  MinDatasetRows = 3
  Bins = 3
  OutlierZ = 1
  OutlierCap = 2
  TopPorts = 2
  MaxDatasets = 2
  Bad = Bad
  Unreadable = Unreadable
  NoPath = NoPath
  Contents <- MCFiles
  Envs <- MCEnvs
  FlagSets <- MCFlags
  MaxEdits = 2
  MaxHangups = 2
  MaxRestarts = 1
  Networks <- NetworkSet
  Undeclared = Undeclared
  FeatureWidth = 2
  ClassWidth = 3
  SeqLen = 2
  MaxHops = 8
CHECK_DEADLOCK FALSE
INVARIANTS
    FormatsReadBack
    ReadsHoldTogether
    FoldsAreFair
    ReloadKeepsItsWord
    NetworksRunAsDeclared
