SPECIFICATION FairSpec
CONSTANTS
  Voters = {v1, v2}
  Proposals = {p1, p2}
  Kinds = {yes}
  ReferendumDuration = 1
  Pausables = {"Vote"}
  MaxCelo = 3
  MaxTime = 2
INVARIANTS
  TalliesAgree
  LiveVotesLocked
  VotesBacked
  HistoryUpdated
PROPERTIES
  AllUnlocked
