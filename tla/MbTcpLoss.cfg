SPECIFICATION FairSpec
CONSTANTS
  Length <- TwoLonger
  MaxSendLength = 2
  CheckInterval = 3
  MaxTimeouts = 3
  GarbledIntervals = {0, 1}
  Prompt = TRUE
  Reorders = FALSE
  Losable = {"initiate", "response", "data", "verification"}
  Duplicable = {"initiate", "response"}
  MaxFaults = 3
  NetCapacity = 6
  QueueLimit = 6
  MaxStrings = 9
PROPERTY KeepsService
