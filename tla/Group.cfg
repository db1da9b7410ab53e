SPECIFICATION FairSpec
CONSTANTS
  m1 = m1
  m2 = m2
  m3 = m3
  h1 = h1
  h2 = h2
  x1 = x1
  G = G
  H = H
  default = default
  NoTask = NoTask
  Workers = {w1, w2, w3}
  Tasks = {m1, m2, m3, x1}
  Groups = {G, default}
  GroupOf <- MCGroupOf
  Size <- MCSize
  Level <- MCLevel
  Kinds <- MCKinds
  Crossings = 2
  MaxRounds <- MCMaxRounds
INVARIANTS BarrierSeparates CountIsWaiting RanksAreUnique
PROPERTY EverybodyFinishes
