SPECIFICATION FairSpec
CONSTANTS
    Callers = {a, b}
    a = a
    b = b
    Fields <- MCFields
    MaxFields = 2
    MaxFieldLen = 2
    Cap = 13
INVARIANTS TypeOK StreamKept RequestsKept NeverWedged
PROPERTIES EveryLineRead
\* Idle: all calls are over and run() waits for the next command.
CHECK_DEADLOCK FALSE
