SPECIFICATION Spec
CONSTANTS
  Groups = {g1, g2}
  Beneficiaries = {b1, b2}
  UnlockingPeriod = 2
  MaxCelo = 3
  MaxTime = 1
SYMMETRY Symmetry
INVARIANTS
  Netted
  GroupSolvent
  WithdrawalBooksAgree
  Conserved
  PendingMatched
PROPERTIES
  BotsPreserveGroupCelo
  ImplementsClaims
