\* One booking through several archivals of its entry and of the contract, with
\* two tokens of which one is accepted; and what fairness brings about.
SPECIFICATION FairSpec
CONSTANTS
    MaxBooking = 1
    Account = {r, h}
    Escrow = escrow
    Asset = {xlm, other}
    NoAsset = NoAsset
    MinDeposit = 1
    MaxDeposit = 1
    TtlThreshold = 1
    TtlExtendTo = 3
    NetworkTtl = 2
    OfferedDeposit <- MCOfferedDeposit
    OfferedVisit <- MCOfferedVisit
    Supply = 1
    SentAmount = {1}
    MaxTime = 5
INVARIANTS
    EntryOutlivesItsCalls
PROPERTIES
    DepositComesBack
CHECK_DEADLOCK FALSE
