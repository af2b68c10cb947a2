\* Erasing and encryption; one request above the limit of one handler.
SPECIFICATION Spec
CONSTANTS
    c1 = c1
    c2 = c2
    c3 = c3
    Client = {c1, c2, c3}
    Limit = 1
    MaxRequests = 3
INVARIANTS
    AsyncTypeOK
    FinishedHasResponse
    NoHandlerOutlives
    EndsOnlyUnused
PROPERTIES
    ImplementsRequestTable
    ToldIsFinished
\* A destroyed dispatcher is the end; a destructor that waits is too.
CHECK_DEADLOCK FALSE
