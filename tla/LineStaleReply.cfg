SPECIFICATION Spec
CONSTANTS
    Callers = {c1, c2}
    Terminals = 1
    MaxKills = 1
    MayStall = FALSE
    ServerMayDie = FALSE
    Presented = {"approve", "decline", "mismatch", "unknown"}
SYMMETRY Symmetry
INVARIANTS ApproveCardApproved
CHECK_DEADLOCK FALSE
