SPECIFICATION Spec
CONSTANTS
    Callers = {c1, c2, c3}
    Terminals = 1
    MaxKills = 2
    MayStall = FALSE
    ServerMayDie = FALSE
    Presented = {"approve", "decline", "mismatch", "unknown"}
SYMMETRY Symmetry
INVARIANTS OwnVerdict CleanCallServed AnswerIsOwn
CHECK_DEADLOCK FALSE
