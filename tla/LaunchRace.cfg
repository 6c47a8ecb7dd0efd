SPECIFICATION FairSpec
CONSTANTS
    Runs = {r1, r2}
    PollLimit = 2
    Backlog = 1
    MaxKills = 2
    MayStall = TRUE
INVARIANTS TypeOK FailsOnlyIfHit Settled
PROPERTIES EveryRunEnds
CHECK_DEADLOCK FALSE
