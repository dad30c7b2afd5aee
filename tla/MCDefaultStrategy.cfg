SPECIFICATION Spec
CONSTANTS
  Groups = {g1, g2, g3}
  None = none
  Rates <- TwoRates
  Answers = {0, 1, 3}
  SortingParams <- Walk2
  MinCounts = {1}
  Adjustments = {1}
  MaxStCelo = 2
  MaxAdjusted = 1
SYMMETRY Symmetry
INVARIANTS
  ListTracksStCelo
  SortedMeansSorted
  NoneStranded
  Covered
  NothingLost
