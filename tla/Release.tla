------------------------------ MODULE Release ------------------------------
(***************************************************************************)
(* src/lib/multiSig-tasks: how a release gets onto a network whose         *)
(* contracts belong to MultiSig (README, "Upgrade contract").  The         *)
(* operator checks the release out and runs the deployment, which deploys  *)
(* the new implementations and leaves the proxies alone; an update task    *)
(* prints one proposal that upgrades them; the owners submit, confirm and  *)
(* execute it.  Runs of the deployment, edits of .env and the owners'      *)
(* transactions interleave.                                                *)
(*                                                                         *)
(* The operators are taken to follow the README in two things: they run an *)
(* update task only after a run that finished, and they print the next     *)
(* proposal, and check the next release out, when none is waiting.  Who    *)
(* signs, and the folder the tasks read, are left out.  MultiSig itself is *)
(* in module MultiSig; here it has one proposal at a time.                 *)
(***************************************************************************)
EXTENDS Deployment, Sequences

SeqExt == INSTANCE SequencesExt

CONSTANTS
  Owners,     \* MultiSig's owners
  NewOwner,   \* the owner release 3 adds
  Required,   \* the confirmations a proposal takes
  Network     \* "celo", "alfajores"

ASSUME OwnersAssumption ==
  /\ IsFiniteSet(Owners) /\ NewOwner \notin Owners
  /\ Required \in 1 .. Cardinality(Owners)

VARIABLES
  pausers,    \* the contracts whose pauser is set
  owners,     \* MultiSig's owners now
  printed,    \* the calls the last update task printed; <<>> when used
  proposal    \* the proposal that waits in MultiSig

releaseVars == <<vars, pausers, owners, printed, proposal>>
chain == <<code, owner, dependencies, groupState, pausers, owners>>

NoProposal == [stage |-> "none", calls |-> <<>>, confirmedBy |-> {}]

----------------------------------------------------------------------------
(* The functions that not every release of their contract has.             *)
Knows(release, fn) ==
  CASE fn = "" -> FALSE
    [] fn \in {"setPauser", "setMinCountOfActiveGroups"} -> release >= 3
    [] fn \in {"setDependencies", "setAllowedToVoteOverMaxNumberOfGroups"} -> release >= 2
    [] OTHER -> TRUE

(* encode:proposal:payload, with c.json as `recorded`: a function that is  *)
(* not in it is logged, and leaves a payload that is blank.                *)
Encoded(recorded, fn, c, arg) ==
  [fn |-> IF Knows(recorded[c], fn) THEN fn ELSE "", to |-> c, arg |-> arg]

(* generateContractUpdate.                                                 *)
ContractUpdate(recorded, c) == Encoded(recorded, "upgradeTo", c, implementation[c])

ContractUpdates(recorded, contracts) ==
  [i \in DOMAIN contracts |-> ContractUpdate(recorded, contracts[i])]

(* The release that is checked out is in place everywhere.                 *)
InPlace ==
  \A c \in Contracts : /\ owner[c] = "MultiSig"
                       /\ code[c] = Version(c, tree)
                       /\ dependencies[c] >= Needs(c, code[c])

(* The update tasks stop where a file of deployments/[network] is missing. *)
Recorded == \A c \in Contracts : abi[c] # 0 /\ implementation[c] # 0

Ready(release) ==
  /\ tree = release
  /\ outcome = "finished"
  /\ ~InPlace
  /\ printed = <<>>
  /\ proposal = NoProposal
  /\ Recorded

(* updateAbiOfV1, and the same for Manager in encodeProposalSetDependencies. *)
UpdateAbiOfV1 ==
  [c \in Contracts |-> IF c \in FirstContracts THEN Version(c, tree) ELSE abi[c]]

(* encodeProposalSetDependencies.                                          *)
SetDependenciesCall(recorded) == Encoded(recorded, "setDependencies", "Manager", 2)

(* generateGroupActivate: a group that is not known as healthy is looked   *)
(* at once more, and left out if it still is not.                          *)
CheckGroupHealth == healthy \cup (validatorGroups \cap Eligible)

GroupActivate ==
  LET groups == SeqExt!SetToSeq(validatorGroups \cap CheckGroupHealth)
  IN  [i \in DOMAIN groups |-> Encoded(abi, "activateGroup", "DefaultStrategy", groups[i])]

Bug_NoDependencies ==
  /\ Ready(2)
  /\ healthy' = CheckGroupHealth
  /\ abi' = UpdateAbiOfV1
  /\ printed' = GroupActivate
       \o ContractUpdates(abi', <<"MultiSig", "Manager", "Account", "StakedCelo",
                                  "RebasedStakedCelo">>)
  /\ UNCHANGED <<tree, implementation, code, owner, dependencies, active, activatable,
                 validatorGroups, run, outcome, pausers, owners, proposal>>

UpdateV1ToV2 ==
  /\ Ready(2)
  /\ healthy' = CheckGroupHealth
  /\ abi' = UpdateAbiOfV1
  /\ printed' = GroupActivate
       \o ContractUpdates(abi', <<"MultiSig", "Manager", "Account", "StakedCelo",
                                  "RebasedStakedCelo">>)
       \o <<Encoded(abi', "setAllowedToVoteOverMaxNumberOfGroups", "Account", TRUE),
            SetDependenciesCall(abi')>>
  /\ UNCHANGED <<tree, implementation, code, owner, dependencies, active, activatable,
                 validatorGroups, run, outcome, pausers, owners, proposal>>

AllInOrder == <<"MultiSig", "Manager", "Account", "StakedCelo", "Vote", "GroupHealth",
                "SpecificGroupStrategy", "DefaultStrategy", "RebasedStakedCelo">>

(* generateMultiSigSetPauser and generateSetPauser: MultiSig is its own    *)
(* pauser, the others take their owner.                                    *)
SetPauserOrder == AllInOrder

SetPausers == [i \in DOMAIN SetPauserOrder |->
                 Encoded(abi, "setPauser", SetPauserOrder[i], "MultiSig")]

SetMinCount == <<Encoded(abi, "setMinCountOfActiveGroups", "DefaultStrategy", 3)>>

(* generateMultiSigAddOwner.                                               *)
AddOwner ==
  IF Network = "alfajores" THEN <<>> ELSE <<Encoded(abi, "addOwner", "MultiSig", NewOwner)>>

Publish(calls) ==
  /\ printed' = calls
  /\ UNCHANGED <<vars, pausers, owners, proposal>>

UpdateV2ToV3 ==
  /\ Ready(3)
  /\ Publish(ContractUpdates(abi, AllInOrder) \o SetPausers \o SetMinCount \o AddOwner)

Bug_NotAccount ==
  /\ Ready(4)
  /\ Publish(ContractUpdates(abi, <<"Manager", "SpecificGroupStrategy", "DefaultStrategy">>))

UpdateV3ToV4 ==
  /\ Ready(4)
  /\ Publish(ContractUpdates(abi, <<"Manager", "SpecificGroupStrategy", "DefaultStrategy",
                                  "Account">>))

(* encode:managerSetDependencies run by itself: it brings Manager.json up  *)
(* to date, and what it prints is not used here.                           *)
EncodeSetDependencies ==
  /\ run.tag = "none"
  /\ abi["Manager"] # 0
  /\ abi' = [abi EXCEPT !["Manager"] = Version("Manager", tree)]
  /\ UNCHANGED <<tree, implementation, code, owner, dependencies, groupState, validatorGroups,
                 run, outcome, pausers, owners, printed, proposal>>

(* X.json brought up to date by hand, as deployments/celo was: no script   *)
(* does it for a contract that MultiSig owns.                              *)
RefreshAbi ==
  /\ run.tag = "none"
  /\ abi' = [c \in Contracts |-> IF abi[c] = 0 THEN 0 ELSE Version(c, tree)]
  /\ abi' # abi
  /\ UNCHANGED <<tree, implementation, code, owner, dependencies, groupState, validatorGroups,
                 run, outcome, pausers, owners, printed, proposal>>

----------------------------------------------------------------------------
(* submitProposal: a blank payload cannot be encoded, the error is logged, *)
(* and nothing is sent.                                                    *)
Scheduled(confirming, stage) ==
  IF Cardinality(confirming \cap owners) >= Required THEN "scheduled" ELSE stage

SubmitProposal(o) ==
  /\ o \in owners
  /\ printed # <<>>
  /\ proposal' = IF \E i \in DOMAIN printed : printed[i].fn = ""
                 THEN proposal
                 ELSE [stage |-> Scheduled({o}, "submitted"), calls |-> printed,
                       confirmedBy |-> {o}]
  /\ printed' = <<>>
  /\ UNCHANGED <<vars, pausers, owners>>

(* confirmProposal reverts when it would schedule a second time.           *)
ConfirmProposal(o) ==
  LET confirming == proposal.confirmedBy \cup {o}
  IN  /\ o \in owners \ proposal.confirmedBy
      /\ proposal.stage # "none"
      /\ proposal.stage = "submitted" \/ Cardinality(confirming \cap owners) < Required
      /\ proposal' = [proposal EXCEPT !.confirmedBy = confirming,
                                      !.stage = Scheduled(confirming, @)]
      /\ UNCHANGED <<vars, pausers, owners, printed>>

RevokeConfirmation(o) ==
  /\ o \in owners \cap proposal.confirmedBy
  /\ proposal' = [proposal EXCEPT !.confirmedBy = @ \ {o}]
  /\ UNCHANGED <<vars, pausers, owners, printed>>

TimelockPasses ==
  /\ proposal.stage = "scheduled"
  /\ proposal' = [proposal EXCEPT !.stage = "executable"]
  /\ UNCHANGED <<vars, pausers, owners, printed>>

(* The code the contracts run once the first n calls are done.             *)
CodeAfter(n) ==
  [c \in Contracts |->
     LET upgrades == {i \in 1 .. n : /\ proposal.calls[i].fn = "upgradeTo"
                                     /\ proposal.calls[i].to = c}
     IN  IF upgrades = {} THEN code[c] ELSE proposal.calls[Max(upgrades)].arg]

Succeeds(call, release) ==
  /\ owner[call.to] = "MultiSig"
  /\ Knows(release, call.fn)
  /\ call.fn = "activateGroup" => CanActivate(call.arg, release)
  /\ call.fn = "addOwner" => call.arg \notin owners

CallsOf(fn) == {call \in SeqExt!ToSet(proposal.calls) : call.fn = fn}

(* executeProposal: the calls in their order, all or none.                 *)
ExecuteProposal ==
  /\ proposal.stage = "executable"
  /\ \A i \in DOMAIN proposal.calls :
       LET call == proposal.calls[i] IN Succeeds(call, CodeAfter(i - 1)[call.to])
  /\ code' = CodeAfter(Len(proposal.calls))
  /\ dependencies' = [c \in Contracts |->
                        IF \E call \in CallsOf("setDependencies") : call.to = c
                        THEN 2 ELSE dependencies[c]]
  /\ active' = active \cup {call.arg : call \in CallsOf("activateGroup")}
  /\ activatable' = activatable \ active'
  /\ pausers' = pausers \cup {call.to : call \in CallsOf("setPauser")}
  /\ owners' = owners \cup {call.arg : call \in CallsOf("addOwner")}
  /\ proposal' = NoProposal
  /\ UNCHANGED <<tree, implementation, abi, owner, healthy, validatorGroups, run, outcome,
                 printed>>

CheckOut ==
  /\ tree < 4
  /\ InPlace
  /\ run.tag = "none"
  /\ printed = <<>>
  /\ proposal = NoProposal
  /\ tree' = tree + 1
  /\ outcome' = "none"
  /\ UNCHANGED <<proxies, dependencies, groupState, validatorGroups, run, pausers, owners,
                 printed, proposal>>

Update == UpdateV1ToV2 \/ UpdateV2ToV3 \/ UpdateV3ToV4

ReleaseInit ==
  /\ Init
  /\ pausers = {}
  /\ owners = Owners
  /\ printed = <<>>
  /\ proposal = NoProposal

ReleaseNext ==
  \/ Next /\ UNCHANGED <<pausers, owners, printed, proposal>>
  \/ Update \/ EncodeSetDependencies \/ RefreshAbi
  \/ \E o \in Owners \cup {NewOwner} :
       SubmitProposal(o) \/ ConfirmProposal(o) \/ RevokeConfirmation(o)
  \/ TimelockPasses \/ ExecuteProposal \/ CheckOut

ReleaseSpec == ReleaseInit /\ [][ReleaseNext]_releaseVars

(* The operators go on: they start again what was cut short, do what the   *)
(* README asks for next, sign and execute, and bring X.json up to date.    *)
Progress ==
  \/ (Script \/ (outcome # "finished" /\ Start("core")))
       /\ UNCHANGED <<pausers, owners, printed, proposal>>
  \/ Update \/ TimelockPasses \/ ExecuteProposal \/ CheckOut
  \/ \E o \in Owners \cup {NewOwner} : SubmitProposal(o) \/ ConfirmProposal(o)

(* In the end nobody interrupts a run, starts one that has nothing to do,  *)
(* edits .env or revokes a confirmation, and .env has no group left: with  *)
(* groups in it a run may fail each time (see ActivateGroupFails).         *)
Disturbance ==
  \/ Interrupt \/ Configure
  \/ outcome = "finished" /\ \E tag \in {"core", "proxy"} : Start(tag)
  \/ \E o \in Owners \cup {NewOwner} : RevokeConfirmation(o)

FairReleaseSpec ==
  /\ ReleaseSpec
  /\ <>[][~Disturbance]_releaseVars
  /\ <>[](validatorGroups = {})
  /\ WF_releaseVars(Progress)
  /\ SF_releaseVars(RefreshAbi)

----------------------------------------------------------------------------
(* A network never runs a mixture of releases: whatever interleaving of    *)
(* runs, tasks and transactions, and of runs of different releases, the    *)
(* contracts that MultiSig owns all have the code they have in one and the *)
(* same release, those it brought or a later one will bring aside; and     *)
(* either all have a pauser or none, as MultiSig.pauseContracts needs,     *)
(* which pauses a list of them in one transaction.                         *)
ReleasedTogether ==
  /\ (\A c \in FirstContracts : owner[c] = "MultiSig") =>
       \E release \in Releases :
         \A c \in Contracts : Version(c, release) # 0 => code[c] = Version(c, release)
  /\ pausers \in {{}, Contracts}

(* Whatever is cut short and started again, every network gets to the last *)
(* release, with all of its contracts in MultiSig's hands and wired.       *)
AllInPlace == <>(tree = 4 /\ InPlace)
============================================================================
