CONSTANTS
    MaxTurns = 2
    Chunks = 2
    CardTurns = {1}
    None = None
    Pending = Pending
SPECIFICATION Spec
INVARIANTS
    TypeOK
    HeardInOrder
    OneVoice
    SupersededIsSilent
    WaitsAreWatched
    
    LastTurnIsHeeded
CHECK_DEADLOCK FALSE
