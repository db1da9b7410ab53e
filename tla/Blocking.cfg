SPECIFICATION BlockingSpec
CONSTANTS
  Threads = {t1, t2, t3, t4}
  NoThread = NoThread
  AcquiredMeans = FALSE
  Waiters = {a1, a2, a3}
  Notifiers = {n1, n2}
  ReuseAfterWake = TRUE
  MaxRounds = 3
  Builds = {"futex", "cond"}
  CondWaiters = {a1}
  Shapes <- MCShapes
  Barriers = {"futex", "cond"}
INVARIANTS
  MutualExclusion NoLostWakeup
  WaitMeansComplete InactiveMeansReceived NoLostNotification NoLostBroadcast
  StartTogether ReadyMeansWorking NoSleeperForgotten
PROPERTIES SomebodyGetsIt ImplementsLock EverybodyReturns EverybodyStarts
