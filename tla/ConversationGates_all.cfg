SPECIFICATION FairSpec
INVARIANTS
    GatesConsistent
    ClosingWaitIsBacked
    FeedbackBeforeEnd
PROPERTIES
    IdleSparesSpeech
    
