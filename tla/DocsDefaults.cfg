\* Whether every default follows the selected network.
SPECIFICATION Spec
CONSTANTS
    Environment <- Environments
    Down = Down
    Refused = Refused
INVARIANTS
    DefaultsFollowTheNetwork
CHECK_DEADLOCK FALSE
