SPECIFICATION Spec
CONSTANTS
  Length <- OneShort
  MaxSendLength = 2
  CheckInterval = 2
  MaxTimeouts = 1
  GarbledIntervals = {0, 1}
  Prompt = FALSE
  Reorders = TRUE
  Losable = {}
  Duplicable = {}
  MaxFaults = 0
  NetCapacity = 2
  QueueLimit = 1
  MaxStrings = 2
INVARIANT AskingMeansMissing
CHECK_DEADLOCK FALSE
