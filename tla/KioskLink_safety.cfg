CONSTANTS
    MaxVisits = 2
    MaxSockets = 2
    MaxFrames = 5
    MaxGen = 2
    MaxWaiting = 2
    RateLimited = FALSE
SPECIFICATION Spec
INVARIANTS
    BackendIsHeard
    LanguageOfVisitor
    EarlierVisitIsBrief
PROPERTIES
    HelloHeld
CHECK_DEADLOCK FALSE
