SPECIFICATION FairSpec
CONSTANTS
  a = a
  b = b
  c = c
  Addresses = {a, b, c}
  InitialOwners = {a, b}
  InitialRequired = 2
  InitialDelay = 1
  MinDelay = 1
  MaxOwnerCount = 2
  Payloads <- MCPayloads
  MaxProposals = 2
  MaxTime = 2
INVARIANTS
  QuorumReachable
PROPERTIES
  ChangesEndorsed
  ImplementsTimelock
  ConfirmedGetScheduled
  ScheduledGetExecuted
