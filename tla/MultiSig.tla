------------------------------ MODULE MultiSig -----------------------------
(***************************************************************************)
(* src/contracts/common/MultiSig.sol: the wallet that owns every other     *)
(* contract.  Owners confirm proposals, a fully confirmed proposal is      *)
(* scheduled behind a time lock, and anyone executes it afterwards.  The   *)
(* wallet changes its own owners, requirement, delay and pauser only by a  *)
(* call to itself, made by a proposal or for Celo Governance.              *)
(*                                                                         *)
(* A reverting transaction changes nothing, so its conditions are guards.  *)
(* A proposal carries two calls; one call to the wallet alone is that call *)
(* and "other".  Left out: a proposal that executes another one from       *)
(* within, values sent along, what calls do to other contracts, upgrades.  *)
(*                                                                         *)
(* A definition named Bug_... is not part of the model: it is the mistaken *)
(* form of a definition that follows it, against which a property fails.   *)
(***************************************************************************)
EXTENDS Integers, FiniteSets

CONSTANTS
  Addresses,        \* accounts that may be owners
  InitialOwners,
  InitialRequired,
  InitialDelay,
  MinDelay,         \* minDelay
  MaxOwnerCount,    \* MAX_OWNER_COUNT
  Payloads,         \* the pairs of calls that are proposed
  MaxProposals,     \* bound: proposals ever submitted
  MaxTime           \* bound: the clock stops here once nothing is locked

ValidRequirement(ownerCount, requiredConfirmations) ==
  /\ ownerCount <= MaxOwnerCount
  /\ requiredConfirmations \in 1 .. ownerCount

Pausers == {"wallet", "guardian"}

(* The calls to the wallet; "other" is any call to another contract.       *)
Calls ==
  [op : {"addOwner", "removeOwner"}, owner : Addresses]
    \cup [op : {"replaceOwner"}, owner : Addresses, newOwner : Addresses]
    \cup [op : {"changeRequirement", "changeDelay"}, n : Nat]
    \cup [op : {"setPauser"}, pauser : Pausers]
    \cup [op : {"pause", "unpause", "other"}]

ASSUME OwnersAssumption ==
  /\ IsFiniteSet(Addresses)
  /\ InitialOwners \subseteq Addresses
  /\ MaxOwnerCount \in Nat
  /\ ValidRequirement(Cardinality(InitialOwners), InitialRequired)
ASSUME DelayAssumption ==
  /\ MinDelay \in Nat
  /\ InitialDelay \in Nat
  /\ InitialDelay >= MinDelay
ASSUME PayloadsAssumption ==
  \A payload \in Payloads : /\ DOMAIN payload = {"first", "second"}
                            /\ payload.first \in Calls
                            /\ payload.second \in Calls
ASSUME BoundsAssumption == MaxProposals \in Nat /\ MaxTime \in Nat

VARIABLES
  config,               \* owners, required, delay, pauser and paused
  proposalCount,
  payload,              \* proposals[p].payloads
  confirmations,        \* who proposals[p].confirmations holds
  timestampExecutable,  \* proposals[p].timestampExecutable
  now,                  \* block.timestamp
  endorsed              \* history: was p confirmed by a quorum when scheduled

vars == <<config, proposalCount, payload, confirmations, timestampExecutable,
          now, endorsed>>

Ids == 0 .. MaxProposals - 1

None == [first |-> [op |-> "other"], second |-> [op |-> "other"]]

NOT_SCHEDULED == 0
DONE_TIMESTAMP == 1
GenesisTime == 2  \* block.timestamp is beyond DONE_TIMESTAMP from the start

Configs ==
  [owners : {S \in SUBSET Addresses : Cardinality(S) <= MaxOwnerCount},
   required : Nat, delay : Nat, pauser : Pausers \cup {"none"}, paused : BOOLEAN]

----------------------------------------------------------------------------
(* The onlyWallet functions: when a call goes through, and its effect.     *)
Allowed(c, call) ==
  \/ /\ call.op = "addOwner"
     /\ call.owner \notin c.owners
     /\ ValidRequirement(Cardinality(c.owners) + 1, c.required)
  \/ /\ call.op = "removeOwner"
     /\ call.owner \in c.owners
     /\ Cardinality(c.owners) # 1
  \/ /\ call.op = "replaceOwner"
     /\ call.owner \in c.owners
     /\ call.newOwner \notin c.owners
  \/ /\ call.op = "changeRequirement"
     /\ ValidRequirement(Cardinality(c.owners), call.n)
  \/ call.op = "changeDelay" /\ call.n >= MinDelay
  \/ call.op \in {"pause", "unpause"} /\ c.pauser = "wallet"
  \/ call.op \in {"setPauser", "other"}

Bug_KeepsRequired(c, owner) == [c EXCEPT !.owners = @ \ {owner}]

(* removeOwner lowers a requirement the owners left could not meet.        *)
WithoutOwner(c, owner) ==
  LET left == c.owners \ {owner}
  IN  [c EXCEPT !.owners = left,
                !.required = IF @ > Cardinality(left) THEN Cardinality(left) ELSE @]

Effect(c, call) ==
  CASE call.op = "addOwner" -> [c EXCEPT !.owners = @ \cup {call.owner}]
    [] call.op = "removeOwner" -> WithoutOwner(c, call.owner)
    [] call.op = "replaceOwner" ->
         [c EXCEPT !.owners = (@ \ {call.owner}) \cup {call.newOwner}]
    [] call.op = "changeRequirement" -> [c EXCEPT !.required = call.n]
    [] call.op = "changeDelay" -> [c EXCEPT !.delay = call.n]
    [] call.op = "setPauser" -> [c EXCEPT !.pauser = call.pauser]
    [] call.op = "pause" -> [c EXCEPT !.paused = TRUE]
    [] call.op = "unpause" -> [c EXCEPT !.paused = FALSE]
    [] OTHER -> c

(* The calls of a payload are made in order, all of them or none.          *)
Run(calls) ==
  LET between == Effect(config, calls.first)
  IN  /\ Allowed(config, calls.first)
      /\ Allowed(between, calls.second)
      /\ config' = Effect(between, calls.second)

Quorum(confirming) == Cardinality(confirming \cap config.owners) >= config.required

Bug_CountsFormerOwners(confirming) == Cardinality(confirming) >= config.required

Bug_ExactCount(confirming) ==
  Cardinality(confirming \cap config.owners) = config.required

(* isFullyConfirmed: only the confirmations of current owners count.       *)
IsFullyConfirmed(confirming) ==
  Cardinality(confirming \cap config.owners) >= config.required

IsScheduled(p) == timestampExecutable[p] > DONE_TIMESTAMP

Bug_NoTimelock(p) == IsScheduled(p)

Bug_FullyConfirmedToo(p) ==
  /\ IsScheduled(p)
  /\ timestampExecutable[p] <= now
  /\ IsFullyConfirmed(confirmations[p])

IsProposalTimelockReached(p) ==
  /\ IsScheduled(p)
  /\ timestampExecutable[p] <= now

(* schedule: only what is neither scheduled nor executed.                  *)
Schedule(p, confirming) ==
  /\ timestampExecutable[p] = NOT_SCHEDULED
  /\ timestampExecutable' = [timestampExecutable EXCEPT ![p] = now + config.delay]
  /\ endorsed' = [endorsed EXCEPT ![p] = Quorum(confirming)]

(* confirmProposal's effect: the confirmation that completes the quorum    *)
(* schedules, and reverts when there is nothing left to schedule.          *)
Confirm(owner, p) ==
  LET confirming == confirmations[p] \cup {owner}
  IN  /\ confirmations' = [confirmations EXCEPT ![p] = confirming]
      /\ IF IsFullyConfirmed(confirming)
         THEN Schedule(p, confirming)
         ELSE UNCHANGED <<timestampExecutable, endorsed>>

----------------------------------------------------------------------------
Init ==
  /\ config = [owners |-> InitialOwners, required |-> InitialRequired,
               delay |-> InitialDelay, pauser |-> "none", paused |-> FALSE]
  /\ proposalCount = 0
  /\ payload = [p \in Ids |-> None]
  /\ confirmations = [p \in Ids |-> {}]
  /\ timestampExecutable = [p \in Ids |-> NOT_SCHEDULED]
  /\ now = GenesisTime
  /\ endorsed = [p \in Ids |-> FALSE]

(* submitProposal: adds the proposal and confirms it for its owner.        *)
SubmitProposal(owner, calls) ==
  /\ proposalCount < MaxProposals
  /\ ~config.paused
  /\ owner \in config.owners
  /\ payload' = [payload EXCEPT ![proposalCount] = calls]
  /\ proposalCount' = proposalCount + 1
  /\ Confirm(owner, proposalCount)
  /\ UNCHANGED <<config, now>>

ConfirmProposal(owner, p) ==
  /\ ~config.paused
  /\ owner \in config.owners
  /\ p < proposalCount
  /\ owner \notin confirmations[p]
  /\ Confirm(owner, p)
  /\ UNCHANGED <<config, proposalCount, payload, now>>

(* scheduleProposal: for a proposal that a change of owners or requirement *)
(* made fully confirmed.                                                   *)
ScheduleProposal(owner, p) ==
  /\ ~config.paused
  /\ owner \in config.owners
  /\ IsFullyConfirmed(confirmations[p])
  /\ Schedule(p, confirmations[p])
  /\ UNCHANGED <<config, proposalCount, payload, confirmations, now>>

(* executeProposal: open to anyone.  It does not look at the confirmations *)
(* again, and a proposal one of whose calls fails stays scheduled.         *)
ExecuteProposal(p) ==
  /\ ~config.paused
  /\ IsProposalTimelockReached(p)
  /\ timestampExecutable' = [timestampExecutable EXCEPT ![p] = DONE_TIMESTAMP]
  /\ Run(payload[p])
  /\ UNCHANGED <<proposalCount, payload, confirmations, now, endorsed>>

(* revokeConfirmation: also while paused; a scheduled proposal stays so.   *)
RevokeConfirmation(owner, p) ==
  /\ owner \in config.owners
  /\ owner \in confirmations[p]
  /\ timestampExecutable[p] # DONE_TIMESTAMP
  /\ confirmations' = [confirmations EXCEPT ![p] = @ \ {owner}]
  /\ UNCHANGED <<config, proposalCount, payload, timestampExecutable, now, endorsed>>

(* governanceProposeAndExecute: Celo Governance makes the wallet call,     *)
(* itself included, at once and paused or not.                             *)
GovernanceProposeAndExecute(calls) ==
  /\ Run(calls)
  /\ UNCHANGED <<proposalCount, payload, confirmations, timestampExecutable,
                 now, endorsed>>

SetPaused(paused) ==
  /\ config' = [config EXCEPT !.paused = paused]
  /\ UNCHANGED <<proposalCount, payload, confirmations, timestampExecutable,
                 now, endorsed>>

(* pauseContracts on the wallet itself, by an owner or Governance.         *)
PauseContracts == config.pauser = "wallet" /\ SetPaused(TRUE)

(* unpauseContracts on the wallet itself, by Governance.                   *)
UnpauseContracts == config.pauser = "wallet" /\ SetPaused(FALSE)

(* pause and unpause by a pauser that is not the wallet.                   *)
PauserStep == config.pauser = "guardian" /\ \E paused \in BOOLEAN : SetPaused(paused)

(* Time passes, up to MaxTime and on until every time lock is reached.     *)
Tick ==
  /\ now < MaxTime \/ \E p \in Ids : timestampExecutable[p] > now
  /\ now' = now + 1
  /\ UNCHANGED <<config, proposalCount, payload, confirmations,
                 timestampExecutable, endorsed>>

GovernanceStep ==
  \/ \E calls \in Payloads : GovernanceProposeAndExecute(calls)
  \/ UnpauseContracts

Next ==
  \/ \E owner \in Addresses, calls \in Payloads : SubmitProposal(owner, calls)
  \/ \E owner \in Addresses, p \in Ids :
       \/ ConfirmProposal(owner, p)
       \/ ScheduleProposal(owner, p)
       \/ RevokeConfirmation(owner, p)
  \/ \E p \in Ids : ExecuteProposal(p)
  \/ GovernanceStep
  \/ PauseContracts
  \/ PauserStep
  \/ Tick

Spec == Init /\ [][Next]_vars

(* Proposals get scheduled by owners and executed by anyone, time passes,  *)
(* and from some point on the wallet is not paused.                        *)
FairSpec ==
  /\ Spec
  /\ \A p \in Ids : /\ WF_vars(\E owner \in Addresses : ScheduleProposal(owner, p))
                    /\ WF_vars(ExecuteProposal(p))
  /\ WF_vars(Tick)
  /\ <>[](~config.paused)

----------------------------------------------------------------------------
(* Type correctness.                                                       *)
TypeOK ==
  /\ config \in Configs
  /\ proposalCount \in 0 .. MaxProposals
  /\ payload \in [Ids -> Payloads \cup {None}]
  /\ confirmations \in [Ids -> SUBSET Addresses]
  /\ timestampExecutable \in [Ids -> Nat]
  /\ now \in Nat
  /\ endorsed \in [Ids -> BOOLEAN]

(* Whatever proposals and Governance change, in whatever order and however *)
(* batched, the owners left can always meet the requirement, there are not *)
(* too many of them, and the delay is no shorter than minDelay.            *)
QuorumReachable ==
  /\ ValidRequirement(Cardinality(config.owners), config.required)
  /\ config.delay >= MinDelay

(* Nothing but a submitted proposal is ever confirmed or scheduled, though *)
(* scheduleProposal does not check that its proposal exists: that rests on *)
(* a quorum never being empty.                                             *)
OnlySubmittedScheduled ==
  \A p \in Ids : p >= proposalCount =>
    confirmations[p] = {} /\ timestampExecutable[p] = NOT_SCHEDULED

(* The wallet's owners, requirement, delay and pauser change only for      *)
(* Governance or by a proposal that a quorum of the owners of the moment   *)
(* confirmed, at least minDelay before.  The timestamp of a proposal still *)
(* holds its scheduling time plus the delay of that time.                  *)
Settings == <<config.owners, config.required, config.delay, config.pauser>>
ChangesEndorsed ==
  [][Settings' = Settings \/ GovernanceStep \/
       \E p \in Ids : /\ endorsed[p]
                      /\ timestampExecutable[p] <= now
                      /\ timestampExecutable[p] > DONE_TIMESTAMP
                      /\ timestampExecutable'[p] = DONE_TIMESTAMP]_vars

(* The life of every proposal is that of an entry of Timelock.             *)
Promise == INSTANCE Timelock WITH
  stage <- [p \in Ids |-> IF timestampExecutable[p] = NOT_SCHEDULED THEN "open"
                          ELSE IF timestampExecutable[p] = DONE_TIMESTAMP THEN "done"
                          ELSE "queued"],
  eta <- [p \in Ids |-> IF IsScheduled(p) THEN timestampExecutable[p] ELSE 0]
ImplementsTimelock == Promise!Spec

(* A proposal that enough owners have confirmed does not stay unscheduled: *)
(* it can be scheduled whether a confirmation, a lowered requirement or a  *)
(* change of owners completed its quorum.                                  *)
ConfirmedGetScheduled ==
  \A p \in Ids :
    Quorum(confirmations[p]) ~> timestampExecutable[p] # NOT_SCHEDULED
                                  \/ ~Quorum(confirmations[p])

(* A scheduled proposal whose calls cannot fail gets executed, whatever    *)
(* becomes of its confirmations, of the owners and the delay.              *)
Unconditional(calls) == {calls.first.op, calls.second.op} \subseteq {"setPauser", "other"}
ScheduledGetExecuted ==
  \A p \in Ids :
    IsScheduled(p) /\ Unconditional(payload[p]) ~> timestampExecutable[p] = DONE_TIMESTAMP

(* The comment on executeProposal: "A proposal is only executetable if it  *)
(* is fully confirmed, scheduled and the set delay has elapsed".           *)
ExecutedWhenFullyConfirmed ==
  [][\A p \in Ids : ExecuteProposal(p) => IsFullyConfirmed(confirmations[p])]_vars
============================================================================
