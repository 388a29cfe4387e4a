CONSTANTS
    UserIDs <- MCUsers
    Sessions <- MCBeating
    Saves = {}
    Managed = {}
    PendingLimit = 1
    Faults = {}
SPECIFICATION FairSpec
PROPERTIES
    HandlerReturns
    LeaverEnds
    SilentEnds
CHECK_DEADLOCK FALSE
