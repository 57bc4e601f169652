\* One booking: two requests at a time race for it, with two check-in codes.
SPECIFICATION Spec
SYMMETRY Symmetry
CONSTANTS
    MCRenter = MCRenter
    MCHost = MCHost
    Account = {MCRenter, MCHost}
    BookingRef <- OneRef
    ChainId = {1}
    OnChain <- OneOnChain
    Slot = {s1}
    SlotStart <- Starts
    Second = 1
    SlotHost <- Hosts
    OfferedDeposit <- Deposits
    MaxApiDeposit = 1
    Nonce = {1, 2}
    ChallengeLife = 1
    Worker = {w1, w2}
    Idle = Idle
    MaxTime = 1
INVARIANTS
    TypeOK
    PaymentsFitTheStatus
    LedgerBacksTheStatus
    PresenceIsProved
    HistoryNeverLies
    ReceiptsAreTrue
PROPERTIES
    StatusMovesAlongThePath
