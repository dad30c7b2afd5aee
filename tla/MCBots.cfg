SPECIFICATION FairBotSpec
CONSTANTS
  g1 = g1
  g2 = g2
  g3 = g3
  Groups = {g1, g2, g3}
  Beneficiaries = {b1}
  UnlockingPeriod = 1
  MaxCelo = 2
  MaxTime = 0
  NoGroup = NoGroup
  MaxSkew = 1
  Bounds <- MCBounds
INVARIANTS
  RevokeFindsIndex
PROPERTIES
  WalkGathersAll
  AllPaid
  AllVoted
CHECK_DEADLOCK FALSE
