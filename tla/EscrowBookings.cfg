\* Two bookings between two accounts, each the renter of one and perhaps the
\* host of the other; entries never archived.
SPECIFICATION Spec
SYMMETRY Symmetry
CONSTANTS
    MaxBooking = 2
    Account = {r, h}
    Escrow = escrow
    Asset = {xlm}
    NoAsset = NoAsset
    MinDeposit = 1
    MaxDeposit = 2
    TtlThreshold = 1
    TtlExtendTo = 4
    NetworkTtl = 5
    OfferedDeposit <- MCOfferedDeposit
    OfferedVisit <- MCOfferedVisit
    Supply = 2
    SentAmount = {1}
    MaxTime = 2
INVARIANTS
    TypeOK
    Solvent
    EventsTellTheState
    SettledByTheRightParty
PROPERTIES
    TermsStayFinal
    KeepsThePromise
CHECK_DEADLOCK FALSE
