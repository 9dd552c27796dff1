SPECIFICATION FairSpec
CONSTANTS
    BundleCnt = 3
    HeaderSize = 2
    BodySize = 2
    Capacity = 4
INVARIANTS
    TypeOK
    SettingsFirst
    ResultsKept
PROPERTIES
    ChannelDown
    ChannelUp
    AllAnswered
    BothClose
CHECK_DEADLOCK FALSE
CONSTRAINT OneMore
