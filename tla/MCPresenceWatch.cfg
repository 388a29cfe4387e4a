CONSTANTS
    UserIDs <- MCUsers
    Sessions <- MCSessions
    Saves <- MCSaves
    Managed <- MCManaged
    PendingLimit = 1
    Faults = {"update", "publish", "process"}
SPECIFICATION MCSpec
INVARIANTS
    TypeOK
    PresenceIsRight
    WatcherIsRight
CHECK_DEADLOCK FALSE
