CONSTANTS
    UserIDs <- MCUsers
    RoomIDs <- MCRooms
    Calls <- MCAgain
    InitialUsers <- MCSomeUsers
    MaxInFlight = 1
SPECIFICATION Spec
INVARIANTS
    DestroyRemovesMembers
CHECK_DEADLOCK FALSE
