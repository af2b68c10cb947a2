\* Two processes, either may be the service, two files, one rule.
SPECIFICATION AccessSpec
CONSTANTS
    Process = {p1, p2}
    NoProcess = NoProcess
    File = {f1, f2}
    Id = {a}
    NoMeta = NoMeta
    Use = Use
    Unknown = Unknown
    ReadMayFail = TRUE
SYMMETRY Interchangeable
INVARIANTS
    AccessTypeOK
    SlotNotHeldByDead
    NoInheritedService
    NoMetaVerdictJustified
    ProtectedIsDenied
