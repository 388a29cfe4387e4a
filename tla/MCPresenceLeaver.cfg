CONSTANTS
    UserIDs <- MCUsers
    Sessions <- MCLeaving
    Saves = {}
    Managed = {}
    PendingLimit = 1
    Faults = {}
SPECIFICATION FairSpec
PROPERTIES
    LeaverGoesOffline
CHECK_DEADLOCK FALSE
