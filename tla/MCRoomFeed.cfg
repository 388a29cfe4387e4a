CONSTANTS
    UserIDs <- MCUsers
    RoomIDs <- MCRooms
    Calls <- MCCalls
    InitialUsers <- MCUsers
    MaxInFlight = 2
    Streams <- MCStream
    PendingLimit = 2
SPECIFICATION MCSpec
INVARIANTS
    NothingMissed
    PeerIsRight
CHECK_DEADLOCK FALSE
