\* Four entries, a rotation whenever there is one, one archive kept, four
\* seconds; a call may fail and the process may die once.
CONSTANTS
    MaxBytes = 1
    Keep = 1
    MaxEntries = 4
    MaxFaults = 1
    MaxCrashes = 1
    MaxTime = 3
SPECIFICATION Spec
INVARIANTS
    NothingLost
    InOrder
PROPERTY
    PrunesOnlyOld
CHECK_DEADLOCK FALSE
