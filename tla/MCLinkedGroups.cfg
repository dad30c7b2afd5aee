SPECIFICATION LinkedSpec
CONSTANTS
  Groups = {g1, g2, g3, g4}
  None = none
  Values = {0, 1, 2}
  MaxLimit = 4
INVARIANTS
  WellLinked
  WalksAgree
  OneHintSuffices
PROPERTIES
  ImplementsOrderedList
