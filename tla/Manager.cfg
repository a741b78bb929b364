SPECIFICATION FairSpec
CONSTANTS
    s1 = s1
    s2 = s2
    eth0 = eth0
    lan = lan
    None = None
    Sources <- Two
    Names <- TwoNames
    NamesOf <- OwnName
    MaxPackets = 1
    SrcBuf = 1
    Buf = 1
    Late <- JustS2
    Failing <- JustS2
    Removable <- JustLan
CHECK_DEADLOCK FALSE
INVARIANTS
    PacketsConserved
    
    RowsTellTheTruth
PROPERTIES
    Settles
