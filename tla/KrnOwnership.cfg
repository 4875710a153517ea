SPECIFICATION OwnershipSpec
CONSTANTS
    Zero = Zero
    Depth = 3
    Leaves <- AllCommitments
    Byte = 4
    Width = 3
    Prime <- Eleven
    MarketIds <- BoundaryIds
    Secrets <- Tickets
INVARIANTS
    RootIsReference
    EveryLeafProvable
    OnlyInsertedAccepted
    HoldersCanClaim
    ClaimedOnce
    ClaimsBacked
PROPERTIES
    ImplementsTicketBook
CHECK_DEADLOCK FALSE
