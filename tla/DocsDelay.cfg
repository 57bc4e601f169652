\* Whether the delay of an RPC node is all that separates database and ledger.
SPECIFICATION DelayedSpec
CONSTANTS
    MaxBooking = 1
    Escrow = escrow
    Asset = {xlm}
    NoAsset = NoAsset
    MinDeposit = 1
    MaxDeposit = 1
    TtlThreshold = 1
    TtlExtendTo = 4
    NetworkTtl = 3
    OfferedVisit <- Visits
    Supply = 1
    SentAmount = {}
    BookingRef <- Refs
    OnChain <- OneEscrow
    ChainId = {1}
    Slot = {s1}
    SlotStart <- Starts
    Second = 2
    SlotHost <- Hosts
    MaxApiDeposit = 1
    Nonce = {1}
    ChallengeLife = 1
    Worker = {w1}
    Account = {MCRenter, MCHost}
    Idle = Idle
    OfferedDeposit = {1}
    MaxTime = 1
    OneNode = TRUE
    MCRenter = MCRenter
    MCHost = MCHost
PROPERTIES
    DelayIsTemporary
CHECK_DEADLOCK FALSE
