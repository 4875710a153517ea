SPECIFICATION FairServiceSpec
CONSTANTS
    b1 = b1
    b2 = b2
    b3 = b3
    platform = platform
    other = other
    s1 = s1
    s2 = s2
    spare = spare
    lost = lost
    NoConfig = NoConfig
    NoTx = NoTx
    Bettors = {}
    Keys <- AllKeys
    Knows <- SharedKeys
    Malformed = {}
    Creators <- OnePlatform
    Stakes = {}
    MarketParams <- ServiceParams
    ProofData <- ServiceReadings
    AccountData <- TwoVotes
    MaxListed = 3
    TreeCapacity = 1
    RentMin = 2
    U64Max = 4
    MaxTime = 2
    Registry <- Entries
    MaxInflight = 2
    Services <- OneService
    FaultKinds = {"gap"}
PROPERTIES
    FailedSourceRetried
CHECK_DEADLOCK FALSE
