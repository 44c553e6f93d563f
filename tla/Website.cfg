CONSTANTS
    Threads = {t1, t2}
    Requests <- SomeRequests
    MaxRequests = 2
    MaxFailures = 1
    Names = {"f"}
    Packets = {"p", "q"}
SPECIFICATION Spec
INVARIANTS
    BackendSeesItsRequest
    PacketsAreConsistent
    FolderIsKnown
PROPERTY EveryRequestEnds
CHECK_DEADLOCK FALSE
