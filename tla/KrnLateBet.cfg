SPECIFICATION Spec
CONSTANTS
    b1 = b1
    b2 = b2
    b3 = b3
    platform = platform
    other = other
    spare = spare
    lost = lost
    NoConfig = NoConfig
    Bettors <- TwoBettors
    Keys <- AllKeys
    Knows <- SharedKeys
    Malformed = {}
    Creators <- OnePlatform
    Stakes = {2}
    MarketParams <- OneSource
    ProofData <- OneSourceProofs
    AccountData <- TwoVotes
    MaxListed = 1
    TreeCapacity = 3
    RentMin = 2
    U64Max = 10
    MaxTime = 2
PROPERTIES
    NoBetAfterClose
CHECK_DEADLOCK FALSE
