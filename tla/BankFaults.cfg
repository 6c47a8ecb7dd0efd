SPECIFICATION FairSpec
CONSTANTS
    Apps = {a1, a2, a3}
    NoLink = NoLink
    Terminals = 2
    PollLimit = 1
    MaxSignals = 1
    MaxKills = 1
INVARIANTS TypeOK LinkLeadsToModem Settled OneModem NoCarrierOnlyIfSlow
PROPERTIES DanglingStays EveryRunEnds
CHECK_DEADLOCK FALSE
