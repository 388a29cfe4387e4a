CONSTANTS
    UserIDs <- MCUsers
    Messages <- MCLiveMessages
    Sessions <- MCLiveSessions
    PendingLimit = 2
SPECIFICATION Spec
INVARIANTS
    RunBeforeServe
CHECK_DEADLOCK FALSE
