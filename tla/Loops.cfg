SPECIFICATION FairSpec
CONSTANTS
  Workers = {w1, w2}
  Modulus = 8
  base_case_size = 1
  Kinds = {"for", "reduce", "while"}
  Spaces <- MCSpaces
  Throwers <- MCThrowers
INVARIANTS SpacesPartition ReturnMeansApplied ReducesInOrder
PROPERTIES LoopEnds
