------------------------------- MODULE Voting ------------------------------
(***************************************************************************)
(* Governance voting with stCELO: src/contracts/Vote.sol, the vote-locked  *)
(* balances of StakedCelo.sol and the functions of Manager.sol that drive  *)
(* them.  A vote is weighted in CELO and locks the stCELO that stands for  *)
(* it, so that it cannot be transferred and vote again on the same         *)
(* proposal; the lock may be taken back when the referendum is over.       *)
(*                                                                         *)
(* A reverting transaction changes nothing, so its conditions are guards.  *)
(* The total CELO is a variable here: how Account and the strategies come  *)
(* by it is left out.  A voter's history of proposals is a set; the loop   *)
(* over the array that stores it is the subject of VoteHistory.            *)
(*                                                                         *)
(* A definition named Bug_... is not part of the model: it is the mistaken *)
(* form of a definition that follows it, against which a property fails.   *)
(***************************************************************************)
EXTENDS Amounts, FiniteSets, FiniteSetsExt

CONSTANTS
  Voters,
  Proposals,
  Kinds,               \* yes, no, abstain
  ReferendumDuration,  \* Governance.getReferendumStageDuration()
  Pausables,           \* bound: the contracts that get paused at all
  MaxCelo,             \* bound: CELO in the protocol at any time
  MaxTime              \* bound: when the last referendum may begin

ASSUME VotersAssumption == IsFiniteSet(Voters) /\ IsFiniteSet(Kinds)
ASSUME PausablesAssumption == Pausables \subseteq {"Manager", "StakedCelo", "Vote", "Account"}
ASSUME BoundsAssumption ==
  ReferendumDuration \in Nat /\ MaxCelo \in Nat /\ MaxTime \in Nat

VARIABLES
  balances,            \* StakedCelo._balances
  lockedBalances,      \* StakedCelo._lockedBalances
  totalSupply,         \* StakedCelo.totalSupply()
  proposalVotes,       \* voters[v].proposalVotes[p]: votes of each kind
  voted,               \* voters[v].proposalVotes[p].proposalId # 0
  votedProposalIds,    \* voters[v].votedProposalIds, as a set
  voteRecords,         \* voteRecords[p]: votes of each kind
  proposalTimestamps,  \* proposalTimestamps[p]
  paused,              \* the contracts that are paused
  totalCelo,           \* external: Account.getTotalCelo()
  referendum,          \* external: Governance's timestamp of p, 0 before
  cast,                \* external: Account's votes on p in Governance
  now                  \* external: block.timestamp

tokens == <<balances, lockedBalances, totalSupply>>
records == <<proposalVotes, voted, votedProposalIds, voteRecords, proposalTimestamps>>
vars == <<tokens, records, paused, totalCelo, referendum, cast, now>>

NoVotes == [k \in Kinds |-> 0]
Weights == {votes \in [Kinds -> 0 .. MaxCelo] : Total(votes) <= MaxCelo}

----------------------------------------------------------------------------
(* Manager's and Vote's conversions, rounding down.                        *)
OneToOne == totalSupply = 0 \/ totalCelo = 0
toStakedCelo(celoAmount) ==
  IF OneToOne THEN celoAmount ELSE (celoAmount * totalSupply) \div totalCelo
toCelo(stCeloAmount) ==
  IF OneToOne THEN stCeloAmount ELSE (stCeloAmount * totalCelo) \div totalSupply

VotingPower(v) == balances[v] + lockedBalances[v]

(* What ERC20's _transfer and _burn can take: only what is not locked.     *)
Spendable(v) == balances[v]

(* Governance takes votes on p in its referendum stage.                    *)
InReferendum(p) == referendum[p] # 0 /\ now < referendum[p] + ReferendumDuration

(* The lock for a vote on p may be taken back.                             *)
Expired(p) == now > proposalTimestamps[p] + ReferendumDuration

Bug_IgnoresExpiry(v) ==
  Max({0} \cup {Total(proposalVotes[v][p]) : p \in votedProposalIds[v]})

StillRelevant(v) ==
  {p \in votedProposalIds[v] : proposalTimestamps[p] # 0 /\ ~Expired(p)}

Bug_Smallest(v) ==
  IF StillRelevant(v) = {} THEN 0
  ELSE Min({Total(proposalVotes[v][p]) : p \in StillRelevant(v)})

(* The largest weight v has given in a referendum that is not over.        *)
LockedInVoting(v) ==
  Max({0} \cup {Total(proposalVotes[v][p]) : p \in StillRelevant(v)})

TimestampsKept(v) ==
  [p \in Proposals |->
     IF p \in votedProposalIds[v] /\ Expired(p) THEN 0 ELSE proposalTimestamps[p]]

(* updateHistoryAndReturnLockedStCeloInVoting: proposals that are over are *)
(* dropped, with their timestamp.                                          *)
UpdatedHistory(v) ==
  /\ votedProposalIds' = [votedProposalIds EXCEPT ![v] = StillRelevant(v)]
  /\ proposalTimestamps' = TimestampsKept(v)
  /\ UNCHANGED <<proposalVotes, voted, voteRecords>>

Bug_AddsOnly(v, p, votes) ==
  [k \in Kinds |-> voteRecords[p][k] + votes[k]]

(* The tally of p after v replaces his votes.                              *)
NewRecord(v, p, votes) ==
  [k \in Kinds |-> voteRecords[p][k] - proposalVotes[v][p][k] + votes[k]]

(* Vote.voteProposal, and the votes Account then casts in Governance.      *)
Record(v, p, votes) ==
  /\ "Manager" \notin paused
  /\ "Account" \notin paused
  /\ InReferendum(p)
  /\ VotingPower(v) # 0
  /\ Total(votes) <= toCelo(VotingPower(v))
  /\ voteRecords' = [voteRecords EXCEPT ![p] = NewRecord(v, p, votes)]
  /\ votedProposalIds' = [votedProposalIds EXCEPT ![v] = IF voted[v][p] THEN @ ELSE @ \cup {p}]
  /\ proposalVotes' = [proposalVotes EXCEPT ![v][p] = votes]
  /\ voted' = [voted EXCEPT ![v][p] = TRUE]
  /\ proposalTimestamps' = [proposalTimestamps EXCEPT ![p] = IF @ = 0 THEN referendum[p] ELSE @]
  /\ cast' = [cast EXCEPT ![p] = NewRecord(v, p, votes)]

Bug_LowersLock(v, amount) ==
  /\ amount - lockedBalances[v] <= balances[v]
  /\ lockedBalances' = [lockedBalances EXCEPT ![v] = amount]
  /\ balances' = [balances EXCEPT ![v] = @ - (amount - lockedBalances[v])]
  /\ UNCHANGED totalSupply

(* StakedCelo.lockVoteBalance: a lock is raised, never lowered.            *)
LockVoteBalance(v, amount) ==
  LET more == amount - lockedBalances[v]
  IN  \/ more <= 0 /\ UNCHANGED tokens
      \/ /\ more > 0
         /\ more <= balances[v]
         /\ lockedBalances' = [lockedBalances EXCEPT ![v] = amount]
         /\ balances' = [balances EXCEPT ![v] = @ - more]
         /\ UNCHANGED totalSupply

----------------------------------------------------------------------------
Init ==
  /\ balances = [v \in Voters |-> 0]
  /\ lockedBalances = [v \in Voters |-> 0]
  /\ totalSupply = 0
  /\ proposalVotes = [v \in Voters |-> [p \in Proposals |-> NoVotes]]
  /\ voted = [v \in Voters |-> [p \in Proposals |-> FALSE]]
  /\ votedProposalIds = [v \in Voters |-> {}]
  /\ voteRecords = [p \in Proposals |-> NoVotes]
  /\ proposalTimestamps = [p \in Proposals |-> 0]
  /\ paused = {}
  /\ totalCelo = 0
  /\ referendum = [p \in Proposals |-> 0]
  /\ cast = [p \in Proposals |-> NoVotes]
  /\ now = 1

(* Manager.deposit.                                                        *)
Deposit(v, celo) ==
  /\ "Manager" \notin paused
  /\ "Account" \notin paused
  /\ totalCelo + celo <= MaxCelo
  /\ balances' = [balances EXCEPT ![v] = @ + toStakedCelo(celo)]
  /\ totalSupply' = totalSupply + toStakedCelo(celo)
  /\ totalCelo' = totalCelo + celo
  /\ UNCHANGED <<lockedBalances, records, paused, referendum, cast, now>>

(* Manager.withdraw.  Bound: never the last stCELO, after which the rates  *)
(* would begin at one to one again.                                        *)
Withdraw(v, stCelo) ==
  /\ "Manager" \notin paused
  /\ "Account" \notin paused
  /\ stCelo <= Spendable(v)
  /\ stCelo < totalSupply
  /\ balances' = [balances EXCEPT ![v] = @ - stCelo]
  /\ totalSupply' = totalSupply - stCelo
  /\ totalCelo' = totalCelo - toCelo(stCelo)
  /\ UNCHANGED <<lockedBalances, records, paused, referendum, cast, now>>

(* StakedCelo._transfer: only what is not locked.                          *)
Transfer(from, to, amount) ==
  /\ "StakedCelo" \notin paused
  /\ from # to
  /\ amount <= Spendable(from)
  /\ balances' = [balances EXCEPT ![from] = @ - amount, ![to] = @ + amount]
  /\ UNCHANGED <<lockedBalances, totalSupply, records, paused, totalCelo,
                 referendum, cast, now>>

(* Manager.voteProposal: records the votes, locks the stCELO, casts them.  *)
VoteProposal(v, p, votes) ==
  /\ Record(v, p, votes)
  /\ LockVoteBalance(v, toStakedCelo(Total(votes)))
  /\ UNCHANGED <<paused, totalCelo, referendum, now>>

(* Manager.revokeVotes: records no votes; the lock stays.                  *)
RevokeVotes(v, p) ==
  /\ Record(v, p, NoVotes)
  /\ UNCHANGED <<tokens, paused, totalCelo, referendum, now>>

(* Vote.updateHistoryAndReturnLockedStCeloInVoting, by anyone.             *)
UpdateHistory(v) ==
  /\ "Vote" \notin paused
  /\ UpdatedHistory(v)
  /\ UNCHANGED <<tokens, paused, totalCelo, referendum, cast, now>>

(* StakedCelo.unlockVoteBalance, by anyone, through Manager and Vote.      *)
UnlockVoteBalance(v) ==
  LET currentlyLocked == toStakedCelo(LockedInVoting(v))
  IN  /\ paused \cap {"StakedCelo", "Manager", "Vote"} = {}
      /\ lockedBalances[v] > currentlyLocked
      /\ UpdatedHistory(v)
      /\ lockedBalances' = [lockedBalances EXCEPT ![v] = currentlyLocked]
      /\ balances' = [balances EXCEPT ![v] = @ + lockedBalances[v] - currentlyLocked]
      /\ UNCHANGED <<totalSupply, paused, totalCelo, referendum, cast, now>>

(* Vote.deleteExpiredVoterProposalId, by anyone.                           *)
DeleteExpiredVoterProposalId(v, p) ==
  /\ "Vote" \notin paused
  /\ p \in votedProposalIds[v]
  /\ proposalTimestamps[p] # 0 => Expired(p)
  /\ votedProposalIds' = [votedProposalIds EXCEPT ![v] = @ \ {p}]
  /\ proposalTimestamps' = [proposalTimestamps EXCEPT ![p] = 0]
  /\ UNCHANGED <<tokens, proposalVotes, voted, voteRecords, paused, totalCelo,
                 referendum, cast, now>>

(* Vote.deleteExpiredProposalTimestamp, by anyone.                         *)
DeleteExpiredProposalTimestamp(p) ==
  /\ "Vote" \notin paused
  /\ Expired(p)
  /\ proposalTimestamps' = [proposalTimestamps EXCEPT ![p] = 0]
  /\ UNCHANGED <<tokens, proposalVotes, voted, votedProposalIds, voteRecords,
                 paused, totalCelo, referendum, cast, now>>

(* Rewards and donations: the total CELO grows.                            *)
Reward ==
  /\ totalCelo < MaxCelo
  /\ totalCelo' = totalCelo + 1
  /\ UNCHANGED <<tokens, records, paused, referendum, cast, now>>

(* Governance dequeues a proposal: its referendum begins.                  *)
Dequeue(p) ==
  /\ referendum[p] = 0
  /\ now <= MaxTime
  /\ referendum' = [referendum EXCEPT ![p] = now]
  /\ UNCHANGED <<tokens, records, paused, totalCelo, cast, now>>

(* Time passes, up to MaxTime and on until every referendum is over.       *)
Tick ==
  /\ now < MaxTime \/ \E p \in Proposals : referendum[p] # 0
                                             /\ now <= referendum[p] + ReferendumDuration
  /\ now' = now + 1
  /\ UNCHANGED <<tokens, records, paused, totalCelo, referendum, cast>>

PauseChange ==
  /\ \E contract \in Pausables :
       paused' = IF contract \in paused THEN paused \ {contract} ELSE paused \cup {contract}
  /\ UNCHANGED <<tokens, records, totalCelo, referendum, cast, now>>

Next ==
  \/ \E v \in Voters, n \in 1 .. MaxCelo : Deposit(v, n) \/ Withdraw(v, n)
  \/ \E from, to \in Voters, n \in 1 .. MaxCelo : Transfer(from, to, n)
  \/ \E v \in Voters, p \in Proposals :
       \/ \E votes \in Weights : VoteProposal(v, p, votes)
       \/ RevokeVotes(v, p)
       \/ DeleteExpiredVoterProposalId(v, p)
  \/ \E v \in Voters : UpdateHistory(v) \/ UnlockVoteBalance(v)
  \/ \E p \in Proposals : DeleteExpiredProposalTimestamp(p) \/ Dequeue(p)
  \/ Reward
  \/ Tick
  \/ PauseChange

Spec == Init /\ [][Next]_vars

(* Voters unlock what they can (unlockVoteBalance is open to anyone), time *)
(* passes, and from some point on nothing is paused.                       *)
FairSpec ==
  /\ Spec
  /\ \A v \in Voters : WF_vars(UnlockVoteBalance(v))
  /\ WF_vars(Tick)
  /\ <>[](paused = {})

----------------------------------------------------------------------------
(* Type correctness.                                                       *)
TypeOK ==
  /\ balances \in [Voters -> Nat]
  /\ lockedBalances \in [Voters -> Nat]
  /\ totalSupply \in Nat
  /\ proposalVotes \in [Voters -> [Proposals -> [Kinds -> Nat]]]
  /\ voted \in [Voters -> [Proposals -> BOOLEAN]]
  /\ votedProposalIds \in [Voters -> SUBSET Proposals]
  /\ voteRecords \in [Proposals -> [Kinds -> Nat]]
  /\ proposalTimestamps \in [Proposals -> Nat]
  /\ paused \subseteq Pausables
  /\ totalCelo \in Nat
  /\ referendum \in [Proposals -> Nat]
  /\ cast \in [Proposals -> [Kinds -> Nat]]
  /\ now \in Nat

(* Locking and unlocking neither create nor destroy stCELO: the supply the *)
(* conversions divide by is what is held, free or locked.                  *)
SupplyHeld == totalSupply = Total(balances) + Total(lockedBalances)

(* Whatever is revoked, replaced or purged from the histories, the tally   *)
(* of a proposal is the sum of the voters' votes, kind by kind, so that    *)
(* voteProposal's checked subtractions never revert, and it is what        *)
(* Governance has for the Account.                                         *)
TalliesAgree ==
  \A p \in Proposals, k \in Kinds :
    /\ voteRecords[p][k] = Total([v \in Voters |-> proposalVotes[v][p][k]])
    /\ cast[p][k] = voteRecords[p][k]

(* As long as Governance counts a vote, the stCELO that stands for it is   *)
(* locked, through transfers, rewards, partial unlocking and any purging   *)
(* of histories and timestamps by other voters.                            *)
LiveVotesLocked ==
  \A v \in Voters, p \in Proposals :
    InReferendum(p) => toStakedCelo(Total(proposalVotes[v][p])) <= lockedBalances[v]

(* No stCELO votes twice: all votes on a proposal in referendum are backed *)
(* by the CELO of the protocol, up to one unit of stCELO of rounding for   *)
(* each voter.                                                             *)
VotesBacked ==
  \A p \in Proposals :
    InReferendum(p) =>
      Total([v \in Voters |-> Total(proposalVotes[v][p])]) * totalSupply
        <= totalCelo * (totalSupply + Cardinality(Voters))

(* Once it is over, no referendum keeps stCELO locked.                     *)
AllUnlocked == \A v \in Voters : lockedBalances[v] > 0 ~> lockedBalances[v] = 0
============================================================================
