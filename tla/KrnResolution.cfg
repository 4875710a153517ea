SPECIFICATION Spec
CONSTANTS
    b1 = b1
    b2 = b2
    b3 = b3
    platform = platform
    other = other
    spare = spare
    lost = lost
    NoConfig = NoConfig
    Bettors <- TwoBettors
    Keys <- AllKeys
    Knows <- SharedKeys
    Malformed = {}
    Creators <- TwoCallers
    Stakes = {2}
    MarketParams <- ManySources
    ProofData <- ManyProofs
    AccountData <- AnyData
    MaxListed = 4
    TreeCapacity = 1
    RentMin = 2
    U64Max = 4
    MaxTime = 3
INVARIANTS
    TypeOK
    OutcomeIffResolved
    VotesCounted
    EarlyOutcomeHasQuorum
PROPERTIES
    EarlyOutcomeBacked
    OutcomeFinal
    OutcomeReadFromSources
CHECK_DEADLOCK FALSE
