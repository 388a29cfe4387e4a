CONSTANTS
    UserIDs <- MCUsers
    Messages <- MCLiveMessages
    Sessions <- MCLiveSessions
    PendingLimit = 2
SPECIFICATION FairSpec
PROPERTIES
    QueuedIsCarried
    HandlerReturns
    CallReturns
CHECK_DEADLOCK FALSE
