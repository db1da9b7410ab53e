SPECIFICATION FairSpec
CONSTANTS
  Waiters = {a1, a2}
  Notifiers = {n1}
  ReuseAfterWake = TRUE
  MaxRounds = 1
  Builds = {"cond"}
  CondWaiters = {a1, a2}
PROPERTY EverybodyReturns
CHECK_DEADLOCK FALSE
