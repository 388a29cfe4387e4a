CONSTANTS
    UserIDs <- MCUsers
    RoomIDs <- MCRooms
    Calls <- MCCalls
    InitialUsers <- MCUsers
    MaxInFlight = 2
SPECIFICATION MCSpec
INVARIANTS
    ListenerIsRight
CHECK_DEADLOCK FALSE
