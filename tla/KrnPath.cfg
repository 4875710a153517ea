SPECIFICATION Spec
CONSTANTS
    b1 = b1
    b2 = b2
    b3 = b3
    platform = platform
    other = other
    spare = spare
    lost = lost
    NoConfig = NoConfig
    Bettors = {}
    Keys <- AllKeys
    Knows <- SharedKeys
    Malformed = {}
    Creators <- TwoCallers
    Stakes = {}
    MarketParams <- TwoPages
    ProofData <- TwoPageProofs
    AccountData <- TwoVotes
    MaxListed = 2
    TreeCapacity = 3
    RentMin = 2
    U64Max = 10
    MaxTime = 3
INVARIANTS
    PathsAsConfigured
CHECK_DEADLOCK FALSE
