\* One deposit when nothing goes wrong and one node serves pages and API.
SPECIFICATION SmoothSpec
CONSTANTS
    MaxBooking = 1
    Escrow = escrow
    Asset = {xlm}
    NoAsset = NoAsset
    MinDeposit = 1
    MaxDeposit = 1
    TtlThreshold = 1
    TtlExtendTo = 4
    NetworkTtl = 3
    OfferedVisit <- Visits
    Supply = 1
    SentAmount = {}
    BookingRef <- Refs
    OnChain <- OneEscrow
    ChainId = {1}
    Slot = {s1}
    SlotStart <- Starts
    Second = 2
    SlotHost <- Hosts
    MaxApiDeposit = 1
    Nonce = {1}
    ChallengeLife = 1
    Worker = {w1, w2}
    Account = {MCRenter, MCHost}
    Idle = Idle
    OfferedDeposit = {1}
    MaxTime = 2
    OneNode = TRUE
    MCRenter = MCRenter
    MCHost = MCHost
PROPERTIES
    PaymentIsRecorded
    SettlementIsRecorded
CHECK_DEADLOCK FALSE
