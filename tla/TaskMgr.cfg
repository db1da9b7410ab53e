SPECIFICATION FairSpec
CONSTANTS
  w1 = w1
  w2 = w2
  t1 = t1
  t2 = t2
  t3 = t3
  t4 = t4
  Workers = {w1, w2}
  Main = Main
  Tasks = {t1, t2, t3, t4}
  NoTask = NoTask
  NumQueues = 2
  QueueOf <- MCQueueOf
  Parent <- MCParent
  Attrs <- MCAttrs
  Policies = {"cilkS", "lifoS", "fifoS", "prioS"}
  MaxSpawns <- MCMaxSpawns
  ReuseAfterWake = TRUE
  MaxAttempts = 1
INVARIANTS TypeOK OnePlace WaitMeansRun CacheIsCurrent StackIsOrdered NothingLeftBehind
PROPERTIES Termination ImplementsForkJoin
