CONSTANTS
    Calls <- MCCalls
SPECIFICATION FairSpec
PROPERTIES
    ReturnsOnceWired
CHECK_DEADLOCK FALSE
