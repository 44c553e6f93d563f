CONSTANTS
    Callers = {"ann", "bo"}
    UsedPorts0 <- SomeUsedPorts
    MaxQueue = 1
    MaxCalls = 1
    MaxInput = 2
    MaxInputs = 1
    MaxBuffer = 3
    Chats = {"ann", "bo"}
    File <- SomeFiles
    MaxLines <- SomeLines
    Lengths = {0, 1, 3, 4}
    MaxChunk = 2
    TimoutMax = 1
    MaxFailures = 2
    Torrents <- SomeTorrents
    MaxRequestBytes = 2
    MaxMessages = 1
    MaxPeers = 2
    FileSizes = {0, 1, 3, 5}
    FirstSize = 2
    FirstBuffer = 4
    MaxDataInMemory = 2
    MaxRecieved = 3
    BufferSizes = {1, 3}
    MaxPlace = 6
    MaxReads = 2
    MaxOpens = 2
SPECIFICATION Spec
INVARIANTS
    AgreeOnPort
    CursorInInput
    TransfersAgree
    FileArrives
    PeerDataInOrder
    ReadsAreTheFile
    NeverStarved
CHECK_DEADLOCK FALSE
