SPECIFICATION Spec
CONSTANTS
    c1 = c1
    c2 = c2
    p = p
    q = q
    v = v
    w = w
    Client = {c1, c2}
    Password = {p, q}
    NoPassword = NoPassword
    Nobody = Nobody
    Key = {1, 2}
    Card = {1}
    Path = {1, 2}
    Value = {v, w}
SYMMETRY Interchangeable
ACTION_CONSTRAINT NoCallBeginsOnceDisturbed
INVARIANTS
    PasswordTypeOK
    EntriesReadable
    ListIsOnDisk
PROPERTIES
    EntriesSurvive
    ClosedStaysClosed
    FileSaysWhatWasAsked
