\* Two processes over one table, two logins, failures and restarts.
SPECIFICATION Spec
SYMMETRY Symmetry
CONSTANTS
    Process = {p1, p2}
    Worker = {w1, w2}
    ChallengeId = {c1, c2}
    Wallet = {a1, a2}
    Origin = {here, there}
    AllowedOrigin = {here}
    ChallengeLife = 1
    SessionLife = 2
    Idle = Idle
    MaxTime = 2
INVARIANTS
    TypeOK
    OneSessionPerChallenge
    SessionsAreEarned
PROPERTIES
    KeepsTheLoginPromise
