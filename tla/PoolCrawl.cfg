SPECIFICATION FairSpec
CONSTANTS
  NumberOfThreads = 2
  main = main
  helper = helper
  t1 = t1
  t2 = t2
  t3 = t3
  t4 = t4
  Owner = main
  Clients = {main}
  Tasks = {t1, t2, t3, t4}
  Program <- CrawlProgram
  Children <- CrawlChildren
  SpuriousWakeups = FALSE
INVARIANT OneTaskPerWorker
PROPERTY KeepsPromise
