CONSTANTS
    MaxTurns = 2
    MaxGen = 3
    HistoryTurns = 1
    LossyCancel = FALSE
SPECIFICATION Spec
INVARIANTS
    OneCurrentTurn
    CancelledIsStale
    NeverSilent
    
    
    
