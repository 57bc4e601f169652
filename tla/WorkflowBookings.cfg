\* A rush for two slots and two escrows, and then requests with each other's hashes.
SPECIFICATION RushSpec
SYMMETRY Symmetry
CONSTANTS
    MCRenter = MCRenter
    MCHost = MCHost
    Account = {MCRenter, MCHost}
    BookingRef <- ThreeRefs
    ChainId <- TwoChainIds
    OnChain <- TwoOnChain
    Slot = {s1, s2}
    SlotStart <- Starts
    Second = 1
    SlotHost <- Hosts
    OfferedDeposit <- Deposits
    MaxApiDeposit = 1
    Nonce = {}
    ChallengeLife = 1
    Worker = {w1, w2, w3}
    Idle = Idle
    MaxTime = 0
INVARIANTS
    BookingsAreDistinct
    LedgerBacksTheStatus
CHECK_DEADLOCK FALSE
