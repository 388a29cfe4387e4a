CONSTANTS
    UserIDs <- MCUsers
    Messages <- MCMessages
    Sessions <- MCSessions
    PendingLimit = 2
SPECIFICATION MCSpec
INVARIANTS
    TypeOK
    RelayInv
    DeliveredInOrder
    DeliveredToAddressee
    AckFirst
    CrashOnlyAtTeardown
    StrandedOnlyIfGone
PROPERTIES
    ImplementsMailbox
CHECK_DEADLOCK FALSE
