\* Two tabs of one browser, two wallets, connections that cross, and one booking.
SPECIFICATION Spec
SYMMETRY Symmetry
CONSTANTS
    Tab = {t1, t2}
    FormTab = {t1}
    Try = {k1, k2}
    Wallet = {a1, a2}
    ChallengeId = {c1, c2}
    BookingRef = {b1}
    None = None
INVARIANTS
    TypeOK
    VerifiedWalletsLoggedIn
    ActingTabAgrees
    OneNamePerBooking
