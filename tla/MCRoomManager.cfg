CONSTANTS
    UserIDs <- MCUsers
    RoomIDs <- MCRooms
    Calls <- MCCalls
    InitialUsers <- MCSomeUsers
    MaxInFlight = 3
SPECIFICATION MCSpec
INVARIANTS
    TypeOK
    ManagerInv
    AudienceIsTold
    MembersGrounded
    CreatedOnce
    SuccessStands
CHECK_DEADLOCK FALSE
