\* No call fails and the array is large: the defect alone.
SPECIFICATION Spec
CONSTANTS
    a = a
    b = b
    Id = {a, b}
    NoId = NoId
    Policy <- NoneOrBoth
    Junk <- ZerosOrGarbage
    BaseSize = 6
    EntrySize = 2
    MaxLength = 3
    MayFail <- NothingFails
PROPERTIES
    RemovedIsGone
