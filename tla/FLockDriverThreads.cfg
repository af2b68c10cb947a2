\* The file system is up when DriverEntry runs: no call fails.
SPECIFICATION DriverSpec
CONSTANTS
    a = a
    c1 = c1
    c2 = c2
    Client = {c1, c2}
    Id = {a}
    NoId = NoId
    Policy <- OpenOrLocked
    Junk <- Nowhere
    BaseSize = 4
    EntrySize = 2
    MaxLength = 3
    MayFail <- NothingFails
    StoredFiles <- AnyFile
CHECK_DEADLOCK FALSE
INVARIANTS
    DriverTypeOK
    MapHasOwner
    OneEntryPerId
    FileMatchesMemory
    StoredRuleStays
PROPERTIES
    FlushHappens
    FlusherStops
    ImplementsRuleBook
