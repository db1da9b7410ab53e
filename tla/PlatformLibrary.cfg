SPECIFICATION PlatformSpec
CONSTANTS
  t1 = t1
  t2 = t2
  t3 = t3
  Threads = {t1, t2, t3, t4}
  NoThread = NoThread
  MaxCount = 4
  Callers = {t1, t2, t3}
  NoCaller = NoCaller
  Bits = 2
  Arguments <- MCArguments
  Disciplines <- MCLibrary
  MaxRounds = 3
PROPERTY ImplementsAtomicWord
CHECK_DEADLOCK FALSE
