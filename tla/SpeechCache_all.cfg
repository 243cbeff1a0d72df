CONSTANTS
    Callers = {c1, c2, c3}
    Keys = {en, kn}
    English = {en}
    MaxSize = 1
    Nobody = Nobody
SPECIFICATION FairSpec
INVARIANTS
    OneCallPerKey
    NoNeedlessCall
PROPERTIES
    EveryRequestEnds
    Promised
