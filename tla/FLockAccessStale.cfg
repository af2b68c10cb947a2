\* Every read succeeds; a file is marked after it was looked at.
SPECIFICATION AccessSpec
CONSTANTS
    Process = {p1, p2}
    NoProcess = NoProcess
    File = {f1}
    Id = {a}
    NoMeta = NoMeta
    Use = Use
    Unknown = Unknown
    ReadMayFail = FALSE
PROPERTIES
    SkipOnlyWithoutMeta
