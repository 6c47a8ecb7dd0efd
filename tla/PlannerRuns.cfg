SPECIFICATION FairSpec
CONSTANTS
    Runs = {1, 2, 3}
    Owner <- MCOwner
    Inputs <- MCInputs
INVARIANTS TwiceOnlyIfMisled ChargedForThePlan SuccessIsPaid
PROPERTIES EveryRunEnds
\* Idle: all runs have ended or wait at a menu for ever.
CHECK_DEADLOCK FALSE
