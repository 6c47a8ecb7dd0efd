SPECIFICATION Spec
CONSTANTS
    Day = 12
    Sidereal = 11
    Horizon = 150
INVARIANTS TransitAhead AtMostOneSkipped
PROPERTIES NeverBack
CHECK_DEADLOCK FALSE
