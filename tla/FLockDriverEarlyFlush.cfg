\* The file system is not up yet when DriverEntry runs: opening may fail.
SPECIFICATION DriverSpec
CONSTANTS
    a = a
    c1 = c1
    c2 = c2
    Client = {c1, c2}
    Id = {a}
    NoId = NoId
    Policy <- OpenOrLocked
    Junk <- Nowhere
    BaseSize = 4
    EntrySize = 2
    MaxLength = 3
    MayFail <- OpenFails
    StoredFiles <- OnlyStored
CHECK_DEADLOCK FALSE
INVARIANTS
    StoredRuleStays
