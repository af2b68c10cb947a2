SPECIFICATION Spec
CONSTANTS
    c1 = c1
    c2 = c2
    lock = lock
    hide = hide
    Client = {c1, c2}
    Nobody = Nobody
    Password = {p}
    password = p
    NoPassword = NoPassword
    NoRule = NoRule
    Key = {1, 2}
    Value = {lock, hide}
SYMMETRY Interchangeable
INVARIANTS
    FolderLockTypeOK
    DriverWasToldTheList
