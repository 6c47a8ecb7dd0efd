SPECIFICATION FairSpec
CONSTANTS
    Callers = {c1, c2}
    Terminals = 2
    MaxKills = 1
    MayStall = TRUE
    ServerMayDie = TRUE
    Presented = {"approve", "unknown"}
INVARIANTS TypeOK AtMostOneCharge AnswersUsedOnce SafeToRetry
PROPERTIES DeskSpec EveryCallEnds ServerComesBack
CHECK_DEADLOCK FALSE
