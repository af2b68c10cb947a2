\* No call fails and the array is large: the defect alone.
SPECIFICATION Spec
CONSTANTS
    a = a
    b = b
    Id = {a, b}
    NoId = NoId
    Policy <- NoneOrBoth
    Junk <- ZerosOrGarbage
    BaseSize = 4
    EntrySize = 2
    MaxLength = 2
    MayFail <- NothingFails
PROPERTIES
    AddedIsFound
