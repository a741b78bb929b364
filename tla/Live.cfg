SPECIFICATION MCSpec
CONSTANTS
  Publishers <- MCPublishers
  DataPlane <- MCDataPlane
  Clients = {c1}
  QueueSize = 1
  BatchCap = 2
  MaxEvents = 4
  MaxReplays = 2
  FilePackets = 1
CHECK_DEADLOCK FALSE
INVARIANTS
    NothingMissingUnsaid
    ReplayStory
PROPERTIES
    VictimsLeave
