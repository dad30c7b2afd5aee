SPECIFICATION Spec
CONSTANTS
  Groups = {g1, g2}
  None = none
  Rates <- ParRate
  Answers = {0, 1}
  SortingParams <- Initials
  MinCounts = {}
  Adjustments = {}
  MaxStCelo = 2
  MaxAdjusted = 0
SYMMETRY Symmetry
INVARIANT
  OverCapacityReverts
