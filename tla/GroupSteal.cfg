SPECIFICATION FairSpec
CONSTANTS
  m1 = m1
  m2 = m2
  m3 = m3
  h1 = h1
  h2 = h2
  x1 = x1
  G = G
  H = H
  default = default
  NoTask = NoTask
  Workers = {w1, w2}
  Tasks = {m1, m2, h1, h2}
  Groups = {G, H}
  GroupOf <- TwoGroupOf
  Size <- TwoSize
  Level <- TwoLevel
  Kinds <- TwoKinds
  Crossings = 2
  MaxRounds <- TwoMaxRounds
PROPERTY EverybodyFinishes
