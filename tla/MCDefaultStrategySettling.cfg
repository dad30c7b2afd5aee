SPECIFICATION SettlingSpec
CONSTANTS
  Groups = {g1, g2, g3}
  None = none
  Rates <- OneRate
  Answers = {3}
  SortingParams <- TwoParams
  MinCounts = {}
  Adjustments = {}
  MaxStCelo = 4
  MaxAdjusted = 0
PROPERTIES
  RebalanceSettles
CHECK_DEADLOCK FALSE
