SPECIFICATION FairSpec
CONSTANTS
    c1 = c1
    c2 = c2
    c3 = c3
    edge = edge
    edge_s1 = edge_s1
    edge_s2 = edge_s2
    None = None
    Local = Local
    Captures <- OwnCapture
    Conns <- Three
    Names <- RowNames
    NameOf <- OneSensor
    AltOf <- Suffixed
    MaxSensors = 1
    Slack = 1
CHECK_DEADLOCK FALSE
INVARIANTS
    PlacesAreReal
PROPERTIES
    PeersSettle
