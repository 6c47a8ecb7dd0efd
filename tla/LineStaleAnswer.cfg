SPECIFICATION Spec
CONSTANTS
    Callers = {c1, c2, c3}
    Terminals = 1
    MaxKills = 0
    MayStall = TRUE
    ServerMayDie = FALSE
    Presented = {"approve", "decline", "mismatch", "unknown"}
SYMMETRY Symmetry
INVARIANTS DeclineCardDeclined
CHECK_DEADLOCK FALSE
