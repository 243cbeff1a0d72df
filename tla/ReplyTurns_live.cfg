CONSTANTS
    MaxTurns = 1
    MaxGen = 3
    HistoryTurns = 1
    LossyCancel = TRUE
SPECIFICATION FairSpec
PROPERTIES
    OutcomeHeard
