SPECIFICATION FairSpec
CONSTANTS
  MaxConnections = 2
  Clients = {1, 2}
  Bodies <- SomeRequests
  MaxDataInMemory = 1
  Secure = TRUE
  HeadersAreWhole = TRUE
INVARIANTS AnswersWholeRequests RemovedOnce
PROPERTIES EveryRequestIsAnswered ClosedIsRemoved
