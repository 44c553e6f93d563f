SPECIFICATION FairSpec
CONSTANTS
  Records <- SomeRecords
  MinPiece = 3
INVARIANTS GivenInOrder EmptyMeansOver
PROPERTY EverythingIsGiven
