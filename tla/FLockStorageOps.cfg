\* Two rules, an array of two slots that grows, every call may fail.
SPECIFICATION Spec
CONSTANTS
    a = a
    b = b
    Id = {a, b}
    NoId = NoId
    Policy <- NoneOrBoth
    Junk <- ZerosOrGarbage
    BaseSize = 2
    EntrySize = 3
    MaxLength = 3
    MayFail <- AllFail
SYMMETRY Interchangeable
INVARIANTS
    TypeOK
    GateNeverMisses
    SpareSlot
PROPERTIES
    ArrayStays
    RemoveRevealsNothing
