SPECIFICATION FairSpec
CONSTANTS
    MaxRequest = 12
    HeaderLengths = {5, 8, 11, 12}
    BodyLengths = {0, 3, 6}
    Requests <- MCRequests
INVARIANTS TypeOK WholeAnswer
PROPERTIES EveryoneHears
CHECK_DEADLOCK FALSE
