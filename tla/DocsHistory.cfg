\* Whether every status recorded with a hash is in the history.
SPECIFICATION Spec
SYMMETRY Symmetry
CONSTANTS
    MCRenter = MCRenter
    MCHost = MCHost
    Account = {MCRenter, MCHost}
    BookingRef <- OneRef
    ChainId = {1}
    OnChain <- OneOnChain
    Slot = {s1}
    SlotStart <- Starts
    Second = 1
    SlotHost <- Hosts
    OfferedDeposit <- Deposits
    MaxApiDeposit = 1
    Nonce = {1}
    ChallengeLife = 1
    Worker = {w1}
    Idle = Idle
    MaxTime = 1
INVARIANTS
    HistoryIsWhole
CHECK_DEADLOCK FALSE
