SPECIFICATION FairSpec
CONSTANTS
  Groups = {g1, g2, g3}
  ActiveGroups = {g1, g2}
  SpecificGroups = {g1, g3}
  Accounts = {a1, a2}
  Default = Default
  MaxGroupsToWithdrawFrom = 2
  MaxCelo = 2
  MaxStCelo = 2
  MaxBooked = 2
  MaxRounded = 1
INVARIANTS
  HoldersBooked
  LentCovered
  LentWithinTotal
  LoopsCovered
  BalancedServes
PROPERTY
  GetsBalanced
