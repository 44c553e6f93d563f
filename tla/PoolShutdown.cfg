SPECIFICATION FairSpec
CONSTANTS
  NumberOfThreads = 2
  main = main
  helper = helper
  t1 = t1
  t2 = t2
  t3 = t3
  t4 = t4
  Owner = main
  Clients = {main, helper}
  Tasks = {t1, t2, t3, t4}
  Program <- ShutdownProgram
  Children <- ShutdownChildren
  SpuriousWakeups = TRUE
INVARIANTS TypeOK NoEmptyFront Conservation OneClaim
PROPERTY Termination
