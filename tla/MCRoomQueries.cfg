CONSTANTS
    UserIDs <- MCUsers
    RoomIDs <- MCRooms
    Queries <- MCQueries
    Limit = 2
SPECIFICATION MCSpec
INVARIANTS
    AnswersHold
    AnsweredIfThere
    WalkMissesNothing
    WalkRepeatsNothing
CHECK_DEADLOCK FALSE
