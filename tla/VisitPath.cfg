\* One deposit from the form to its return, with every way to stop on the way.
SPECIFICATION Spec
SYMMETRY Symmetry
CONSTANTS
    MaxBooking = 1
    Escrow = escrow
    Asset = {xlm}
    NoAsset = NoAsset
    MinDeposit = 2
    MaxDeposit = 2
    TtlThreshold = 1
    TtlExtendTo = 4
    NetworkTtl = 3
    OfferedVisit <- Visits
    Supply = 3
    SentAmount = {}
    BookingRef <- Refs
    OnChain <- OneEscrow
    ChainId = {1}
    Slot = {s1}
    SlotStart <- Starts
    Second = 2
    SlotHost <- Hosts
    MaxApiDeposit = 3
    Nonce = {1}
    ChallengeLife = 1
    Worker = {w1, w2}
    Account = {MCRenter, MCHost}
    Idle = Idle
    OfferedDeposit <- Deposits
    MaxTime = 2
    OneNode = FALSE
    MCRenter = MCRenter
    MCHost = MCHost
INVARIANTS
    DatabaseFollowsTheContract
    TermsAreTheBookings
    ReleaseFollowsCheckIn
    UnpayableGoesNowhere
PROPERTIES
    TheApiSeesItsLedger
    KeepsTheVisitPromise
CHECK_DEADLOCK FALSE
