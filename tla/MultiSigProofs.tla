--------------------------- MODULE MultiSigProofs --------------------------
(***************************************************************************)
(* Theorems about MultiSig, for every finite set of addresses, every valid *)
(* initial configuration, every set of payloads and every bound.           *)
(***************************************************************************)
EXTENDS MultiSig, FiniteSetTheorems, TLAPS

USE OwnersAssumption, DelayAssumption, BoundsAssumption

(* A configuration the wallet may have.                                    *)
Valid(cfg) ==
  /\ cfg \in Configs
  /\ ValidRequirement(Cardinality(cfg.owners), cfg.required)
  /\ cfg.delay >= MinDelay

(* A proposal that has left the open stage was endorsed by a quorum.       *)
EndorsedWhenScheduled ==
  \A p \in Ids : timestampExecutable[p] # NOT_SCHEDULED => endorsed[p]

(* The inductive invariant.                                                *)
IInv ==
  /\ TypeOK
  /\ Valid(config)
  /\ OnlySubmittedScheduled
  /\ EndorsedWhenScheduled
  /\ now >= GenesisTime

----------------------------------------------------------------------------
(* Every set of owners is finite.                                          *)
LEMMA OwnersFinite ==
  ASSUME NEW S \in SUBSET Addresses
  PROVE  IsFiniteSet(S) /\ Cardinality(S) \in Nat
BY FS_Subset, FS_CardinalityType

(* removeOwner leaves a requirement that the owners left can meet.         *)
LEMMA WithoutOwnerValid ==
  ASSUME NEW cfg, Valid(cfg), NEW owner \in cfg.owners, Cardinality(cfg.owners) # 1
  PROVE  Valid(WithoutOwner(cfg, owner))
<1> DEFINE left == cfg.owners \ {owner}
<1>1. cfg.owners \in SUBSET Addresses /\ left \in SUBSET Addresses
  BY DEF Valid, Configs
<1>2. Cardinality(cfg.owners) \in Nat /\ Cardinality(left) = Cardinality(cfg.owners) - 1
  BY <1>1, OwnersFinite, FS_RemoveElement
<1>3. /\ Cardinality(cfg.owners) <= MaxOwnerCount
      /\ cfg.required \in 1 .. Cardinality(cfg.owners)
      /\ cfg.required \in Nat
  BY DEF Valid, ValidRequirement, Configs
<1>4. Cardinality(left) \in Nat /\ Cardinality(left) > 0 /\ Cardinality(left) <= MaxOwnerCount
  BY <1>2, <1>3
<1>5. /\ WithoutOwner(cfg, owner) \in Configs
      /\ WithoutOwner(cfg, owner).owners = left
      /\ WithoutOwner(cfg, owner).required =
           IF cfg.required > Cardinality(left) THEN Cardinality(left) ELSE cfg.required
      /\ WithoutOwner(cfg, owner).delay = cfg.delay
  BY <1>1, <1>3, <1>4 DEF WithoutOwner, Valid, Configs
<1> HIDE DEF left
<1>6. ValidRequirement(Cardinality(left), WithoutOwner(cfg, owner).required)
  BY <1>3, <1>4, <1>5 DEF ValidRequirement
<1> QED BY <1>5, <1>6 DEF Valid

(* A call that goes through leads from a valid configuration to one.       *)
LEMMA EffectValid ==
  ASSUME NEW cfg, Valid(cfg), NEW call \in Calls, Allowed(cfg, call)
  PROVE  Valid(Effect(cfg, call))
<1> USE DEF Valid, Configs, ValidRequirement
<1>0. /\ cfg.owners \in SUBSET Addresses
      /\ Cardinality(cfg.owners) \in Nat
      /\ IsFiniteSet(cfg.owners)
  BY OwnersFinite
<1>1. CASE call.op = "addOwner"
  <2> DEFINE more == cfg.owners \cup {call.owner}
  <2>1. /\ call.owner \in Addresses
        /\ call.owner \notin cfg.owners
        /\ ValidRequirement(Cardinality(cfg.owners) + 1, cfg.required)
    BY <1>1 DEF Calls, Allowed
  <2>2. Cardinality(more) = Cardinality(cfg.owners) + 1
    BY <2>1, <1>0, FS_AddElement
  <2>3. Effect(cfg, call) = [cfg EXCEPT !.owners = more]
    BY <1>1 DEF Effect
  <2>4. more \in SUBSET Addresses
    BY <2>1, <1>0
  <2> HIDE DEF more
  <2> QED BY <2>1, <2>2, <2>3, <2>4
<1>2. CASE call.op = "removeOwner"
  <2>1. call.owner \in cfg.owners /\ Cardinality(cfg.owners) # 1
    BY <1>2 DEF Allowed
  <2>2. Effect(cfg, call) = WithoutOwner(cfg, call.owner)
    BY <1>2 DEF Effect
  <2> QED BY <2>1, <2>2, WithoutOwnerValid
<1>3. CASE call.op = "replaceOwner"
  <2> DEFINE left == cfg.owners \ {call.owner}
  <2> DEFINE replaced == left \cup {call.newOwner}
  <2>1. /\ call.newOwner \in Addresses
        /\ call.owner \in cfg.owners
        /\ call.newOwner \notin cfg.owners
    BY <1>3 DEF Calls, Allowed
  <2>2. IsFiniteSet(left) /\ Cardinality(left) = Cardinality(cfg.owners) - 1
    BY <2>1, <1>0, FS_RemoveElement
  <2>3. Cardinality(replaced) = Cardinality(left) + 1
    BY <2>1, <2>2, FS_AddElement
  <2>4. Effect(cfg, call) = [cfg EXCEPT !.owners = replaced]
    BY <1>3 DEF Effect
  <2>5. replaced \in SUBSET Addresses
    BY <2>1, <1>0
  <2>6. Cardinality(replaced) = Cardinality(cfg.owners)
    BY <2>2, <2>3, <1>0
  <2> HIDE DEF replaced
  <2> QED BY <2>4, <2>5, <2>6
<1>4. CASE call.op = "changeRequirement"
  <2>1. ValidRequirement(Cardinality(cfg.owners), call.n) /\ call.n \in Nat
    BY <1>4 DEF Calls, Allowed
  <2>2. Effect(cfg, call) = [cfg EXCEPT !.required = call.n]
    BY <1>4 DEF Effect
  <2> QED BY <2>1, <2>2
<1>5. CASE call.op = "changeDelay"
  <2>1. call.n >= MinDelay /\ call.n \in Nat
    BY <1>5 DEF Calls, Allowed
  <2>2. Effect(cfg, call) = [cfg EXCEPT !.delay = call.n]
    BY <1>5 DEF Effect
  <2> QED BY <2>1, <2>2
<1>6. CASE call.op = "setPauser"
  <2>1. call.pauser \in Pausers
    BY <1>6 DEF Calls
  <2>2. Effect(cfg, call) = [cfg EXCEPT !.pauser = call.pauser]
    BY <1>6 DEF Effect
  <2> QED BY <2>1, <2>2
<1>7. CASE call.op \in {"pause", "unpause", "other"}
  <2>1. \/ Effect(cfg, call) = [cfg EXCEPT !.paused = TRUE]
        \/ Effect(cfg, call) = [cfg EXCEPT !.paused = FALSE]
        \/ Effect(cfg, call) = cfg
    BY <1>7 DEF Effect
  <2> QED BY <2>1
<1> QED BY <1>1, <1>2, <1>3, <1>4, <1>5, <1>6, <1>7 DEF Allowed

(* So does a whole payload.                                                *)
LEMMA RunValid ==
  ASSUME Valid(config), NEW calls \in Payloads \cup {None}, Run(calls)
  PROVE  Valid(config')
<1>1. calls.first \in Calls /\ calls.second \in Calls
  BY PayloadsAssumption DEF None, Calls
<1>2. Valid(Effect(config, calls.first))
  BY <1>1, EffectValid DEF Run
<1> QED BY <1>1, <1>2, EffectValid DEF Run
----------------------------------------------------------------------------
(* The initial configuration is valid and nothing is scheduled.            *)
LEMMA InitInvariant == Init => IInv
<1> SUFFICES ASSUME Init PROVE IInv
  OBVIOUS
<1>1. Valid(config)
  BY OwnersFinite DEF Init, Valid, Configs, ValidRequirement
<1>2. TypeOK
  BY <1>1 DEF Init, TypeOK, Valid, Ids, NOT_SCHEDULED, GenesisTime
<1> QED BY <1>1, <1>2 DEF Init, IInv, OnlySubmittedScheduled, EndorsedWhenScheduled,
                          Ids, NOT_SCHEDULED, GenesisTime

(* A fully confirmed proposal was confirmed by someone, and schedule marks *)
(* it as endorsed, with a timestamp beyond DONE_TIMESTAMP.                 *)
LEMMA ScheduleFact ==
  ASSUME IInv, NEW p \in Ids, NEW confirming \in SUBSET Addresses,
         IsFullyConfirmed(confirming), Schedule(p, confirming)
  PROVE  /\ confirming # {}
         /\ timestampExecutable[p] = NOT_SCHEDULED
         /\ now + config.delay \in Nat
         /\ now + config.delay > DONE_TIMESTAMP
         /\ now + config.delay >= now + MinDelay
         /\ timestampExecutable' = [timestampExecutable EXCEPT ![p] = now + config.delay]
         /\ endorsed' = [endorsed EXCEPT ![p] = TRUE]
<1>1. /\ config.owners \in SUBSET Addresses
      /\ config.required \in Nat
      /\ config.delay \in Nat
      /\ config.delay >= MinDelay
  BY DEF IInv, Valid, Configs
<1>2. config.required > 0
  BY <1>1, OwnersFinite DEF IInv, Valid, ValidRequirement
<1>3. confirming # {}
  <2>1. SUFFICES ASSUME confirming = {} PROVE FALSE
    OBVIOUS
  <2>2. Cardinality(confirming \cap config.owners) = 0
    BY <2>1, FS_EmptySet
  <2> QED BY <1>1, <1>2, <2>2 DEF IsFullyConfirmed
<1>4. now \in Nat /\ now >= GenesisTime /\ MinDelay \in Nat
  BY DEF IInv, TypeOK
<1>5. Quorum(confirming) = TRUE
  BY DEF Quorum, IsFullyConfirmed
<1> QED BY <1>1, <1>3, <1>4, <1>5 DEF Schedule, GenesisTime, DONE_TIMESTAMP

(* Scheduling a submitted proposal preserves the invariant.                *)
LEMMA SchedulePreserves ==
  ASSUME IInv, NEW p \in Ids, NEW confirming \in SUBSET Addresses,
         IsFullyConfirmed(confirming), Schedule(p, confirming),
         proposalCount' \in 0 .. MaxProposals, proposalCount' >= proposalCount,
         p < proposalCount',
         payload' \in [Ids -> Payloads \cup {None}],
         confirmations' = [confirmations EXCEPT ![p] = confirming],
         UNCHANGED <<config, now>>
  PROVE  IInv'
<1>1. /\ now + config.delay \in Nat
      /\ timestampExecutable' = [timestampExecutable EXCEPT ![p] = now + config.delay]
      /\ endorsed' = [endorsed EXCEPT ![p] = TRUE]
  BY ScheduleFact
<1>2. TypeOK'
  BY <1>1 DEF IInv, TypeOK
<1>3. Valid(config)' /\ now' >= GenesisTime
  BY DEF IInv, Valid, Configs
<1>4. OnlySubmittedScheduled'
  <2>1. proposalCount \in Nat /\ proposalCount' \in Nat
    BY DEF IInv, TypeOK
  <2> SUFFICES ASSUME NEW q \in Ids, q >= proposalCount'
               PROVE  confirmations'[q] = {} /\ timestampExecutable'[q] = NOT_SCHEDULED
    BY DEF OnlySubmittedScheduled
  <2>2. q # p /\ q >= proposalCount
    BY <2>1 DEF Ids
  <2> QED BY <1>1, <2>2 DEF IInv, TypeOK, OnlySubmittedScheduled
<1>5. EndorsedWhenScheduled'
  BY <1>1 DEF IInv, TypeOK, EndorsedWhenScheduled
<1> QED BY <1>2, <1>3, <1>4, <1>5 DEF IInv

(* So does a change of the confirmations of a submitted proposal alone.    *)
LEMMA ConfirmationPreserves ==
  ASSUME IInv, NEW p \in Ids, NEW confirming \in SUBSET Addresses,
         proposalCount' \in 0 .. MaxProposals, proposalCount' >= proposalCount,
         p < proposalCount',
         payload' \in [Ids -> Payloads \cup {None}],
         confirmations' = [confirmations EXCEPT ![p] = confirming],
         UNCHANGED <<config, now, timestampExecutable, endorsed>>
  PROVE  IInv'
<1>1. TypeOK'
  BY DEF IInv, TypeOK
<1>2. Valid(config)' /\ now' >= GenesisTime
  BY DEF IInv, Valid, Configs
<1>3. OnlySubmittedScheduled'
  <2>1. proposalCount \in Nat /\ proposalCount' \in Nat
    BY DEF IInv, TypeOK
  <2> SUFFICES ASSUME NEW q \in Ids, q >= proposalCount'
               PROVE  confirmations'[q] = {} /\ timestampExecutable'[q] = NOT_SCHEDULED
    BY DEF OnlySubmittedScheduled
  <2>2. q # p /\ q >= proposalCount
    BY <2>1 DEF Ids
  <2> QED BY <2>2 DEF IInv, TypeOK, OnlySubmittedScheduled
<1>4. EndorsedWhenScheduled'
  BY DEF IInv, EndorsedWhenScheduled
<1> QED BY <1>1, <1>2, <1>3, <1>4 DEF IInv

(* So does confirming one.                                                 *)
LEMMA ConfirmPreserves ==
  ASSUME IInv, NEW p \in Ids, NEW owner \in Addresses, Confirm(owner, p),
         proposalCount' \in 0 .. MaxProposals, proposalCount' >= proposalCount,
         p < proposalCount',
         payload' \in [Ids -> Payloads \cup {None}],
         UNCHANGED <<config, now>>
  PROVE  IInv'
<1> DEFINE confirming == confirmations[p] \cup {owner}
<1>1. confirming \in SUBSET Addresses
  BY DEF IInv, TypeOK
<1>2. confirmations' = [confirmations EXCEPT ![p] = confirming]
  BY DEF Confirm
<1>3. ASSUME IsFullyConfirmed(confirming) PROVE Schedule(p, confirming)
  BY <1>3 DEF Confirm
<1>4. ASSUME ~IsFullyConfirmed(confirming)
      PROVE  UNCHANGED <<timestampExecutable, endorsed>>
  BY <1>4 DEF Confirm
<1> HIDE DEF confirming
<1>5. CASE IsFullyConfirmed(confirming)
  BY <1>1, <1>2, <1>3, <1>5, SchedulePreserves
<1>6. CASE ~IsFullyConfirmed(confirming)
  BY <1>1, <1>2, <1>4, <1>6, ConfirmationPreserves
<1> QED BY <1>5, <1>6

(* So does a change of the configuration alone.                            *)
LEMMA ConfigPreserves ==
  ASSUME IInv, Valid(config'),
         UNCHANGED <<proposalCount, payload, confirmations, timestampExecutable,
                     now, endorsed>>
  PROVE  IInv'
<1>1. TypeOK'
  BY DEF IInv, TypeOK, Valid
<1>2. Valid(config)'
  BY DEF Valid, Configs
<1> QED BY <1>1, <1>2 DEF IInv, OnlySubmittedScheduled, EndorsedWhenScheduled

(* Pausing changes nothing the invariant depends on.                       *)
LEMMA SetPausedPreserves ==
  ASSUME IInv, NEW paused \in BOOLEAN, SetPaused(paused)
  PROVE  IInv'
<1>1. Valid([config EXCEPT !.paused = paused])
  BY DEF IInv, Valid, Configs
<1> QED BY <1>1, ConfigPreserves DEF SetPaused

----------------------------------------------------------------------------
(* Every step preserves the invariant.                                     *)
LEMMA StepInvariant == IInv /\ [Next]_vars => IInv'
<1> SUFFICES ASSUME IInv, [Next]_vars PROVE IInv'
  OBVIOUS
<1>0. /\ proposalCount \in 0 .. MaxProposals
      /\ payload \in [Ids -> Payloads \cup {None}]
      /\ confirmations \in [Ids -> SUBSET Addresses]
  BY DEF IInv, TypeOK
<1>1. ASSUME NEW owner \in Addresses, NEW calls \in Payloads, SubmitProposal(owner, calls)
      PROVE  IInv'
  <2>1. /\ proposalCount \in Ids
        /\ proposalCount' = proposalCount + 1
        /\ proposalCount' \in 0 .. MaxProposals
    BY <1>0, <1>1 DEF SubmitProposal, Ids
  <2>2. payload' \in [Ids -> Payloads \cup {None}]
    BY <1>0, <1>1 DEF SubmitProposal
  <2>3. Confirm(owner, proposalCount) /\ UNCHANGED <<config, now>>
    BY <1>1 DEF SubmitProposal
  <2>4. proposalCount' >= proposalCount /\ proposalCount < proposalCount'
    BY <1>0, <2>1
  <2> QED BY <2>1, <2>2, <2>3, <2>4, ConfirmPreserves
<1>2. ASSUME NEW owner \in Addresses, NEW p \in Ids, ConfirmProposal(owner, p)
      PROVE  IInv'
  BY <1>0, <1>2, ConfirmPreserves DEF ConfirmProposal
<1>3. ASSUME NEW owner \in Addresses, NEW p \in Ids, ScheduleProposal(owner, p)
      PROVE  IInv'
  <2>1. IsFullyConfirmed(confirmations[p]) /\ Schedule(p, confirmations[p])
    BY <1>3 DEF ScheduleProposal
  <2>2. confirmations[p] # {}
    BY <1>0, <2>1, ScheduleFact
  <2>3. p < proposalCount
    BY <1>0, <2>2 DEF IInv, OnlySubmittedScheduled, Ids
  <2>4. confirmations' = [confirmations EXCEPT ![p] = confirmations[p]]
    BY <1>0, <1>3 DEF ScheduleProposal
  <2>5. UNCHANGED <<config, proposalCount, payload, now>>
    BY <1>3 DEF ScheduleProposal
  <2>6. /\ proposalCount' \in 0 .. MaxProposals
        /\ proposalCount' >= proposalCount
        /\ p < proposalCount'
        /\ payload' \in [Ids -> Payloads \cup {None}]
    BY <1>0, <2>3, <2>5
  <2>7. UNCHANGED <<config, now>> /\ confirmations[p] \in SUBSET Addresses
    BY <1>0, <2>5
  <2> QED BY <2>1, <2>4, <2>6, <2>7, SchedulePreserves
<1>4. ASSUME NEW owner \in Addresses, NEW p \in Ids, RevokeConfirmation(owner, p)
      PROVE  IInv'
  <2>1. p < proposalCount
    BY <1>0, <1>4 DEF RevokeConfirmation, IInv, OnlySubmittedScheduled, Ids
  <2>2. confirmations' = [confirmations EXCEPT ![p] = confirmations[p] \ {owner}]
    BY <1>4 DEF RevokeConfirmation
  <2>3. UNCHANGED <<config, proposalCount, payload, timestampExecutable, now, endorsed>>
    BY <1>4 DEF RevokeConfirmation
  <2>4. confirmations[p] \ {owner} \in SUBSET Addresses
    BY <1>0
  <2>5. /\ proposalCount' \in 0 .. MaxProposals
        /\ proposalCount' >= proposalCount
        /\ p < proposalCount'
        /\ payload' \in [Ids -> Payloads \cup {None}]
    BY <1>0, <2>1, <2>3
  <2>6. UNCHANGED <<config, now, timestampExecutable, endorsed>>
    BY <2>3
  <2> QED BY <2>2, <2>4, <2>5, <2>6, ConfirmationPreserves
<1>5. ASSUME NEW p \in Ids, ExecuteProposal(p)
      PROVE  IInv'
  <2>1. Valid(config')
    BY <1>0, <1>5, RunValid DEF ExecuteProposal, IInv
  <2>2. /\ timestampExecutable' = [timestampExecutable EXCEPT ![p] = DONE_TIMESTAMP]
        /\ UNCHANGED <<proposalCount, payload, confirmations, now, endorsed>>
        /\ timestampExecutable[p] # NOT_SCHEDULED
    BY <1>5 DEF ExecuteProposal, IsProposalTimelockReached, IsScheduled,
                NOT_SCHEDULED, DONE_TIMESTAMP
  <2>3. TypeOK'
    BY <2>1, <2>2 DEF IInv, TypeOK, Valid, DONE_TIMESTAMP
  <2>4. OnlySubmittedScheduled'
    BY <2>2 DEF IInv, TypeOK, OnlySubmittedScheduled
  <2>5. EndorsedWhenScheduled'
    BY <2>2 DEF IInv, TypeOK, EndorsedWhenScheduled
  <2>6. Valid(config)'
    BY <2>1 DEF Valid, Configs
  <2> QED BY <2>2, <2>3, <2>4, <2>5, <2>6 DEF IInv
<1>6. CASE GovernanceStep
  <2>1. ASSUME NEW calls \in Payloads, GovernanceProposeAndExecute(calls)
        PROVE  IInv'
    <3>1. Valid(config')
      BY <2>1, RunValid DEF GovernanceProposeAndExecute, IInv
    <3> QED BY <2>1, <3>1, ConfigPreserves DEF GovernanceProposeAndExecute
  <2>2. CASE UnpauseContracts
    BY <2>2, SetPausedPreserves DEF UnpauseContracts
  <2> QED BY <1>6, <2>1, <2>2 DEF GovernanceStep
<1>7. CASE PauseContracts
  BY <1>7, SetPausedPreserves DEF PauseContracts
<1>8. CASE PauserStep
  BY <1>8, SetPausedPreserves DEF PauserStep
<1>9. CASE Tick
  <2>1. /\ now' = now + 1
        /\ UNCHANGED <<config, proposalCount, payload, confirmations,
                       timestampExecutable, endorsed>>
    BY <1>9 DEF Tick
  <2>2. TypeOK' /\ now' >= GenesisTime
    BY <2>1 DEF IInv, TypeOK, GenesisTime
  <2>3. Valid(config)'
    BY <2>1 DEF IInv, Valid, Configs
  <2> QED BY <2>1, <2>2, <2>3 DEF IInv, OnlySubmittedScheduled, EndorsedWhenScheduled
<1>10. CASE UNCHANGED vars
  <2>1. Valid(config)'
    BY <1>10 DEF vars, IInv, Valid, Configs
  <2> QED BY <1>10, <2>1 DEF vars, IInv, TypeOK, OnlySubmittedScheduled,
                             EndorsedWhenScheduled
<1> QED BY <1>1, <1>2, <1>3, <1>4, <1>5, <1>6, <1>7, <1>8, <1>9, <1>10 DEF Next

(* The inductive invariant holds throughout.                               *)
THEOREM Invariant == Spec => []IInv
BY InitInvariant, StepInvariant, PTL DEF Spec

(* TypeOK.                                                                 *)
THEOREM TypeCorrect == Spec => []TypeOK
<1>1. IInv => TypeOK
  BY DEF IInv
<1> QED BY <1>1, Invariant, PTL

(* QuorumReachable: removeOwner, replaceOwner and changeRequirement never  *)
(* leave a wallet that its owners cannot operate.                          *)
THEOREM QuorumAlwaysReachable == Spec => []QuorumReachable
<1>1. IInv => QuorumReachable
  BY DEF IInv, Valid, QuorumReachable
<1> QED BY <1>1, Invariant, PTL

(* OnlySubmittedScheduled: the quorum protects scheduleProposal from       *)
(* proposals that do not exist.                                            *)
THEOREM OnlySubmittedAlways == Spec => []OnlySubmittedScheduled
<1>1. IInv => OnlySubmittedScheduled
  BY DEF IInv
<1> QED BY <1>1, Invariant, PTL

(* ChangesEndorsed: only Governance and proposals endorsed by a quorum,    *)
(* past their time lock, change the wallet's owners and settings.          *)
THEOREM ChangesAlwaysEndorsed == Spec => ChangesEndorsed
<1> DEFINE Executed == \E p \in Ids : /\ endorsed[p]
                                      /\ timestampExecutable[p] <= now
                                      /\ timestampExecutable[p] > DONE_TIMESTAMP
                                      /\ timestampExecutable'[p] = DONE_TIMESTAMP
<1>1. ASSUME IInv, [Next]_vars
      PROVE  [Settings' = Settings \/ GovernanceStep \/ Executed]_vars
  <2>1. ASSUME NEW p \in Ids, ExecuteProposal(p)
        PROVE  Executed
    <3>1. /\ timestampExecutable[p] > DONE_TIMESTAMP
          /\ timestampExecutable[p] <= now
      BY <2>1 DEF ExecuteProposal, IsProposalTimelockReached, IsScheduled
    <3>2. endorsed[p]
      BY <1>1, <3>1 DEF IInv, EndorsedWhenScheduled, NOT_SCHEDULED, DONE_TIMESTAMP
    <3>3. timestampExecutable'[p] = DONE_TIMESTAMP
      BY <1>1, <2>1 DEF ExecuteProposal, IInv, TypeOK
    <3> QED BY <3>1, <3>2, <3>3
  <2>2. ASSUME NEW paused \in BOOLEAN, SetPaused(paused)
        PROVE  Settings' = Settings
    <3>1. config' = [config EXCEPT !.paused = paused]
      BY <2>2 DEF SetPaused
    <3> QED BY <1>1, <3>1 DEF Settings, IInv, Valid, Configs
  <2>3. ASSUME UNCHANGED config
        PROVE  Settings' = Settings
    BY <2>3 DEF Settings
  <2>4. CASE \/ \E owner \in Addresses, calls \in Payloads : SubmitProposal(owner, calls)
             \/ \E owner \in Addresses, p \in Ids :
                  \/ ConfirmProposal(owner, p)
                  \/ ScheduleProposal(owner, p)
                  \/ RevokeConfirmation(owner, p)
             \/ Tick
             \/ UNCHANGED vars
    BY <2>3, <2>4 DEF SubmitProposal, ConfirmProposal, ScheduleProposal,
                      RevokeConfirmation, Tick, vars
  <2>5. CASE PauseContracts \/ PauserStep
    BY <2>2, <2>5 DEF PauseContracts, PauserStep
  <2> QED BY <1>1, <2>1, <2>4, <2>5 DEF Next
<1> QED BY <1>1, Invariant, PTL DEF Spec, ChangesEndorsed

----------------------------------------------------------------------------
(* The stage of each proposal, as Promise sees it.                         *)
stage == [p \in Ids |-> IF timestampExecutable[p] = NOT_SCHEDULED THEN "open"
                        ELSE IF timestampExecutable[p] = DONE_TIMESTAMP THEN "done"
                        ELSE "queued"]
eta == [p \in Ids |-> IF IsScheduled(p) THEN timestampExecutable[p] ELSE 0]

(* Scheduling a proposal queues it behind the time lock.                   *)
LEMMA ScheduleQueues ==
  ASSUME IInv, NEW p \in Ids, NEW confirming \in SUBSET Addresses,
         IsFullyConfirmed(confirming), Schedule(p, confirming), UNCHANGED now
  PROVE  Promise!Queue(p)
<1> USE DEF NOT_SCHEDULED, DONE_TIMESTAMP
<1>1. timestampExecutable \in [Ids -> Nat]
  BY DEF IInv, TypeOK
<1>2. /\ timestampExecutable[p] = 0
      /\ now + config.delay \in Nat
      /\ now + config.delay > 1
      /\ now + config.delay >= now + MinDelay
      /\ timestampExecutable' = [timestampExecutable EXCEPT ![p] = now + config.delay]
  BY ScheduleFact
<1>3. stage[p] = "open" /\ stage' = [stage EXCEPT ![p] = "queued"]
  <2>1. stage[p] = "open" /\ stage'[p] = "queued"
    BY <1>1, <1>2 DEF stage
  <2>2. \A q \in Ids \ {p} : stage'[q] = stage[q]
    BY <1>1, <1>2 DEF stage
  <2>3. DOMAIN stage = Ids /\ DOMAIN stage' = Ids
    BY DEF stage
  <2> QED BY <2>1, <2>2, <2>3 DEF stage
<1>4. eta' = [eta EXCEPT ![p] = eta'[p]] /\ eta'[p] = now + config.delay
  BY <1>1, <1>2 DEF eta, IsScheduled
<1>5. eta'[p] >= now + MinDelay
  BY <1>2, <1>4
<1> QED BY <1>3, <1>4, <1>5 DEF Promise!Queue, stage, eta

(* Executing one executes the entry.                                       *)
LEMMA ExecuteExecutes ==
  ASSUME IInv, NEW p \in Ids, ExecuteProposal(p)
  PROVE  Promise!Execute(p)
<1> USE DEF NOT_SCHEDULED, DONE_TIMESTAMP
<1>1. timestampExecutable \in [Ids -> Nat]
  BY DEF IInv, TypeOK
<1>2. /\ timestampExecutable[p] > 1
      /\ timestampExecutable[p] <= now
      /\ timestampExecutable' = [timestampExecutable EXCEPT ![p] = 1]
      /\ UNCHANGED now
  BY DEF ExecuteProposal, IsProposalTimelockReached, IsScheduled
<1>3. stage[p] = "queued" /\ stage' = [stage EXCEPT ![p] = "done"]
  <2>1. stage[p] = "queued" /\ stage'[p] = "done"
    BY <1>1, <1>2 DEF stage
  <2>2. \A q \in Ids \ {p} : stage'[q] = stage[q]
    BY <1>1, <1>2 DEF stage
  <2>3. DOMAIN stage = Ids /\ DOMAIN stage' = Ids
    BY DEF stage
  <2> QED BY <2>1, <2>2, <2>3 DEF stage
<1>4. eta[p] <= now /\ eta' = [eta EXCEPT ![p] = 0]
  <2>1. eta[p] = timestampExecutable[p] /\ eta'[p] = 0
    BY <1>1, <1>2 DEF eta, IsScheduled
  <2>2. \A q \in Ids \ {p} : eta'[q] = eta[q]
    BY <1>1, <1>2 DEF eta, IsScheduled
  <2>3. DOMAIN eta = Ids /\ DOMAIN eta' = Ids
    BY DEF eta
  <2> QED BY <1>2, <2>1, <2>2, <2>3 DEF eta
<1> QED BY <1>2, <1>3, <1>4 DEF Promise!Execute, stage, eta

(* ImplementsTimelock: every step of the multisig is one of Timelock's or  *)
(* leaves every entry as it is.                                            *)
THEOREM TimelockKept == Spec => ImplementsTimelock
<1>1. Init => Promise!Init
  <2> SUFFICES ASSUME Init PROVE Promise!Init
    OBVIOUS
  <2>1. timestampExecutable = [p \in Ids |-> 0] /\ now \in Nat
    BY DEF Init, NOT_SCHEDULED, GenesisTime
  <2> QED BY <2>1 DEF Promise!Init, IsScheduled, NOT_SCHEDULED, DONE_TIMESTAMP
<1>2. ASSUME IInv, [Next]_vars
      PROVE  [Promise!Next]_<<stage, eta, now>>
  <2>0. confirmations \in [Ids -> SUBSET Addresses]
    BY <1>2 DEF IInv, TypeOK
  <2>1. ASSUME UNCHANGED <<timestampExecutable, now>>
        PROVE  UNCHANGED <<stage, eta, now>>
    BY <2>1 DEF stage, eta, IsScheduled
  <2>2. ASSUME NEW p \in Ids, NEW owner \in Addresses, Confirm(owner, p), UNCHANGED now
        PROVE  Promise!Queue(p) \/ UNCHANGED <<stage, eta, now>>
    <3> DEFINE confirming == confirmations[p] \cup {owner}
    <3>1. CASE IsFullyConfirmed(confirming)
      <4>1. Schedule(p, confirming) /\ confirming \in SUBSET Addresses
        BY <2>0, <2>2, <3>1 DEF Confirm
      <4> QED BY <1>2, <2>2, <3>1, <4>1, ScheduleQueues
    <3>2. CASE ~IsFullyConfirmed(confirming)
      BY <2>1, <2>2, <3>2 DEF Confirm
    <3> QED BY <3>1, <3>2
  <2>3. ASSUME NEW owner \in Addresses, NEW calls \in Payloads, SubmitProposal(owner, calls)
        PROVE  Promise!Next \/ UNCHANGED <<stage, eta, now>>
    <3>1. proposalCount \in Ids
      BY <1>2, <2>3 DEF SubmitProposal, Ids, IInv, TypeOK
    <3> QED BY <2>2, <2>3, <3>1 DEF SubmitProposal, Promise!Next
  <2>4. ASSUME NEW owner \in Addresses, NEW p \in Ids, ConfirmProposal(owner, p)
        PROVE  Promise!Next \/ UNCHANGED <<stage, eta, now>>
    BY <2>2, <2>4 DEF ConfirmProposal, Promise!Next
  <2>5. ASSUME NEW owner \in Addresses, NEW p \in Ids, ScheduleProposal(owner, p)
        PROVE  Promise!Next
    BY <1>2, <2>0, <2>5, ScheduleQueues DEF ScheduleProposal, Promise!Next
  <2>6. ASSUME NEW p \in Ids, ExecuteProposal(p)
        PROVE  Promise!Next
    BY <1>2, <2>6, ExecuteExecutes DEF Promise!Next
  <2>7. CASE Tick
    <3>1. now' > now /\ UNCHANGED timestampExecutable
      BY <1>2, <2>7 DEF Tick, IInv, TypeOK
    <3> QED BY <3>1 DEF Promise!Next, Promise!Advance, IsScheduled
  <2>8. CASE \/ \E owner \in Addresses, p \in Ids : RevokeConfirmation(owner, p)
             \/ GovernanceStep
             \/ PauseContracts
             \/ PauserStep
             \/ UNCHANGED vars
    <3>1. UNCHANGED <<timestampExecutable, now>>
      BY <2>8 DEF RevokeConfirmation, GovernanceStep, GovernanceProposeAndExecute,
                  UnpauseContracts, PauseContracts, PauserStep, SetPaused, vars
    <3> QED BY <2>1, <3>1
  <2> QED BY <1>2, <2>3, <2>4, <2>5, <2>6, <2>7, <2>8 DEF Next
<1> QED BY <1>1, <1>2, Invariant, PTL DEF Spec, ImplementsTimelock, Promise!Spec, stage, eta
============================================================================
