CONSTANTS
    MaxVisits = 2
    MaxSockets = 2
    MaxFrames = 6
    MaxGen = 2
    MaxWaiting = 2
    RateLimited = FALSE
SPECIFICATION Spec
INVARIANTS
    NoEarlierVisit
CHECK_DEADLOCK FALSE
