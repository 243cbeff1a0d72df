SPECIFICATION FairSpec
PROPERTIES
    EndedSessionSleeps
