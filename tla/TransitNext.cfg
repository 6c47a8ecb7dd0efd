SPECIFICATION Spec
CONSTANTS
    Day = 12
    Sidereal = 11
    Horizon = 150
INVARIANTS NextTransit
CHECK_DEADLOCK FALSE
