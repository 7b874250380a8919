CONSTANTS
    None = None
    Page = {1, 2}
    MaxRuns = 3
    MaxEvents = 1
    MaxConsents = 2
SPECIFICATION FairSpec
INVARIANTS LocalDatabaseInv OptOutIsFinal
PROPERTY ResetEnds
CHECK_DEADLOCK FALSE
