SPECIFICATION FairSpec
CONSTANTS
    Callers = {c1, c2}
    Nobody = Nobody
    Parks = {p1, p2}
    Elsewhere = Elsewhere
    MaxListed = 2
    SendBuffer = 3
    MaxStops = 1
    MaxKills = 1
    ServerMayDie = TRUE
    MayStall = TRUE
INVARIANTS TypeOK OwnAnswer FailsAlone
PROPERTIES EveryCallEnds
CHECK_DEADLOCK FALSE
