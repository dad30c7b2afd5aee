SPECIFICATION FairReleaseSpec
CONSTANTS
  g1 = g1
  g2 = g2
  g3 = g3
  o1 = o1
  o2 = o2
  o3 = o3
  Groups = {g1, g2, g3}
  Eligible = {g1, g2}
  Owners = {o1, o2}
  NewOwner = o3
  Required = 2
  Network = "celo"
INVARIANTS
  HandedOverWired
  ReleasedTogether
PROPERTY
  AllInPlace
