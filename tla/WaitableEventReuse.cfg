SPECIFICATION FairSpec
CONSTANTS
  Waiters = {a1}
  Notifiers = {n1, n2}
  ReuseAfterWake = FALSE
  MaxRounds = 2
  Builds = {"futex"}
  CondWaiters = {}
INVARIANT WaitMeansComplete
