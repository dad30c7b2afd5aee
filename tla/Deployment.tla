----------------------------- MODULE Deployment -----------------------------
(***************************************************************************)
(* src/deploy and src/lib/deploy-utils.ts: `yarn deploy` runs the scripts  *)
(* 00 to 13 in order.  They deploy the nine contracts behind proxies, set  *)
(* their dependencies while the deployer owns them, and hand them over to  *)
(* MultiSig.  Every transaction may be the last one of a run; the operator *)
(* starts again, and each script decides by what it finds on the chain and *)
(* in deployments/[network] what is left to do.  The same scripts, run     *)
(* over a network in use with the contracts of a later release checked     *)
(* out, prepare an upgrade (see Release).                                  *)
(*                                                                         *)
(* hardhat-deploy is external: deploy() creates what is not on record,     *)
(* replaces the implementation of a contract whose code has changed, and   *)
(* leaves the others alone.  The address given to an upgrade, gas and the  *)
(* files' formats are left out.                                            *)
(***************************************************************************)
EXTENDS Naturals, FiniteSetsExt

CONSTANTS
  Groups,    \* validator groups the operator may configure
  Eligible   \* those that GroupHealth finds healthy

ASSUME GroupsAssumption == IsFiniteSet(Groups) /\ Eligible \subseteq Groups

VARIABLES
  tree,             \* the release that is checked out
  implementation,   \* the release of X_Implementation.json; 0 without the file
  abi,              \* the release of X.json; 0 without the file
  code,             \* the release of the code the proxy runs; 0 before it exists
  owner,            \* the owner of the proxy
  dependencies,     \* the generation of dependencies set; 0 when none are
  healthy,          \* GroupHealth.isGroupValid
  active,           \* DefaultStrategy's activeGroups
  activatable,      \* DefaultStrategy's activatableGroups
  validatorGroups,  \* VALIDATOR_GROUPS
  run,              \* where the run at work stands
  outcome           \* how the last run ended

proxies == <<implementation, abi, code, owner>>
groupState == <<healthy, active, activatable>>
vars == <<tree, proxies, dependencies, groupState, validatorGroups, run, outcome>>

Contracts == {"MultiSig", "Manager", "Account", "StakedCelo", "Vote", "GroupHealth",
              "SpecificGroupStrategy", "DefaultStrategy", "RebasedStakedCelo"}

FirstContracts == {"MultiSig", "Manager", "Account", "StakedCelo", "RebasedStakedCelo"}

Releases == 1 .. 4

(* The contracts whose code a release brought or changed, as far as the    *)
(* records of deployments/celo tell.                                       *)
ChangedIn(release) ==
  CASE release = 1 -> FirstContracts
    [] release = 2 -> Contracts
    [] release = 3 -> Contracts
    [] release = 4 -> {"Manager", "SpecificGroupStrategy", "DefaultStrategy", "Account"}

(* The release that last changed c, up to the given one; 0 if none has c.  *)
Version(c, release) == Max({0} \cup {v \in 1 .. release : c \in ChangedIn(v)})

(* The dependencies c must have been given for its code to work: Manager   *)
(* has had others since the strategies exist.                              *)
Needs(c, version) ==
  CASE c = "Manager" -> IF version < 2 THEN version ELSE 2
    [] c \in {"Vote", "SpecificGroupStrategy", "DefaultStrategy"} ->
         IF version = 0 THEN 0 ELSE 2
    [] OTHER -> 0

(* The contracts a call of c ends up in, and that have dependencies.       *)
Reaches(c) ==
  IF c = "Manager" /\ code[c] >= 2
  THEN {c, "Vote", "SpecificGroupStrategy", "DefaultStrategy"}
  ELSE {c}

----------------------------------------------------------------------------
(* A run: the tag it was started with, the number of the script at work,   *)
(* whether the script is in its loop, the groups left in it, whether it    *)
(* has activated one of them, and the next contract to transfer.           *)
Idle == [tag |-> "none", script |-> 0, loop |-> FALSE, todo |-> {}, placed |-> FALSE, next |-> 1]

Tagged(tag) == IF tag = "proxy" THEN (0 .. 7) \cup {13} ELSE 0 .. 13

AtScript(k) == run.tag # "none" /\ run.script = k /\ ~run.loop

InLoop(k) == run.tag # "none" /\ run.script = k /\ run.loop

(* On to the next script with the tag; 14 is the end.                      *)
Continue ==
  /\ run' = [Idle EXCEPT !.tag = run.tag,
               !.script = Min({14} \cup {k \in Tagged(run.tag) : k > run.script})]
  /\ UNCHANGED outcome

Loop(groups) ==
  /\ run' = [run EXCEPT !.loop = TRUE, !.todo = groups]
  /\ UNCHANGED outcome

(* deployTask logs the error, and the run is over.                         *)
Throw == run' = Idle /\ outcome' = "failed"

----------------------------------------------------------------------------
(* deploy(c), for a contract that belongs to `first` when it is created.   *)
(* The upgrade of a proxy that MultiSig owns is refused, which the scripts *)
(* catch; c.json is then left as it was.                                   *)
DeployProxy(c, first) ==
  LET v == Version(c, tree)
  IN  IF abi[c] = 0
      THEN /\ implementation' = [implementation EXCEPT ![c] = v]
           /\ abi' = [abi EXCEPT ![c] = v]
           /\ code' = [code EXCEPT ![c] = v]
           /\ owner' = [owner EXCEPT ![c] = first]
      ELSE IF implementation[c] # v
      THEN /\ implementation' = [implementation EXCEPT ![c] = v]
           /\ IF owner[c] = "deployer"
              THEN /\ abi' = [abi EXCEPT ![c] = v]
                   /\ code' = [code EXCEPT ![c] = v]
              ELSE UNCHANGED <<abi, code>>
           /\ UNCHANGED owner
      ELSE UNCHANGED proxies

DeployOnly(k, c, first) ==
  /\ AtScript(k)
  /\ DeployProxy(c, first)
  /\ Continue
  /\ UNCHANGED <<tree, dependencies, groupState, validatorGroups>>

DeployMultiSig == DeployOnly(0, "MultiSig", "MultiSig")
DeployManager == DeployOnly(1, "Manager", "deployer")
DeployAccount == DeployOnly(2, "Account", "deployer")
DeployStakedCelo == DeployOnly(3, "StakedCelo", "deployer")
DeployVote == DeployOnly(4, "Vote", "deployer")
DeploySpecificGroupStrategy == DeployOnly(6, "SpecificGroupStrategy", "deployer")
DeployDefaultStrategy == DeployOnly(7, "DefaultStrategy", "deployer")
DeployRebasedStakedCelo == DeployOnly(13, "RebasedStakedCelo", "MultiSig")

(* 05: the groups are looked at only by the run that creates the contract. *)
DeployGroupHealth ==
  /\ AtScript(5)
  /\ DeployProxy("GroupHealth", "MultiSig")
  /\ Loop(IF abi["GroupHealth"] = 0 THEN validatorGroups ELSE {})
  /\ UNCHANGED <<tree, dependencies, groupState, validatorGroups>>

UpdateGroupHealth(g) ==
  /\ InLoop(5)
  /\ g \in run.todo
  /\ healthy' = IF g \in Eligible THEN healthy \cup {g} ELSE healthy \ {g}
  /\ run' = [run EXCEPT !.todo = @ \ {g}]
  /\ UNCHANGED <<tree, proxies, dependencies, active, activatable, validatorGroups, outcome>>

GroupHealthDone ==
  /\ InLoop(5)
  /\ run.todo = {}
  /\ Continue
  /\ UNCHANGED <<tree, proxies, dependencies, groupState, validatorGroups>>

(* 08 to 11: dependencies are set by the deployer, and again in every run, *)
(* for as long as he is the owner.                                         *)
SetDependencies(c) ==
  dependencies' = IF owner[c] # "MultiSig" THEN [dependencies EXCEPT ![c] = 2]
                                           ELSE dependencies

SetDependenciesOnly(k, c) ==
  /\ AtScript(k)
  /\ SetDependencies(c)
  /\ Continue
  /\ UNCHANGED <<tree, proxies, groupState, validatorGroups>>

SetManagerDependencies == SetDependenciesOnly(8, "Manager")
SetVoteDependencies == SetDependenciesOnly(9, "Vote")
SetSpecificGroupStrategyDependencies == SetDependenciesOnly(10, "SpecificGroupStrategy")

(* 11: then the configured groups are activated, one by one, unless this   *)
(* is an upgrade.                                                          *)
SetDefaultStrategyDependencies ==
  /\ AtScript(11)
  /\ SetDependencies("DefaultStrategy")
  /\ Loop(IF "MultiSig" \in {owner["DefaultStrategy"], owner["Manager"]}
          THEN {} ELSE validatorGroups)
  /\ UNCHANGED <<tree, proxies, groupState, validatorGroups>>

(* What DefaultStrategy.activateGroup requires; release 3 added that the   *)
(* owner must have made the group activatable.                             *)
CanActivate(g, version) ==
  /\ version >= 3 => g \in activatable
  /\ g \in healthy
  /\ g \notin active

(* nextGroup: the group activated before, or zero.  As hints, zero and     *)
(* zero are refused unless the list is empty.                              *)
HintsAccepted == run.placed \/ active = {}

ActivateGroup(g) ==
  /\ InLoop(11)
  /\ g \in run.todo \cap healthy
  /\ CanActivate(g, code["DefaultStrategy"]) /\ HintsAccepted
  /\ active' = active \cup {g}
  /\ activatable' = activatable \ {g}
  /\ run' = [run EXCEPT !.todo = @ \ {g}, !.placed = TRUE]
  /\ UNCHANGED <<tree, proxies, dependencies, healthy, validatorGroups, outcome>>

SkipUnhealthyGroup(g) ==
  /\ InLoop(11)
  /\ g \in run.todo \ healthy
  /\ run' = [run EXCEPT !.todo = @ \ {g}]
  /\ UNCHANGED <<tree, proxies, dependencies, groupState, validatorGroups, outcome>>

ActivateGroupFails(g) ==
  /\ InLoop(11)
  /\ g \in run.todo \cap healthy
  /\ ~(CanActivate(g, code["DefaultStrategy"]) /\ HintsAccepted)
  /\ Throw
  /\ UNCHANGED <<tree, proxies, dependencies, groupState, validatorGroups>>

GroupsActivated ==
  /\ InLoop(11)
  /\ run.todo = {}
  /\ Continue
  /\ UNCHANGED <<tree, proxies, dependencies, groupState, validatorGroups>>

----------------------------------------------------------------------------
(* 12: the contracts the deployer still owns, one transaction each.        *)
TransferOrder ==
  <<"Account", "StakedCelo", "Manager", "Vote", "SpecificGroupStrategy", "DefaultStrategy">>

Bug_NotChecked ==
  /\ AtScript(12)
  /\ run.next <= 6
  /\ LET c == TransferOrder[run.next]
     IN  IF owner[c] = "deployer"
         THEN /\ owner' = [owner EXCEPT ![c] = "MultiSig"]
              /\ run' = [run EXCEPT !.next = @ + 1]
              /\ UNCHANGED outcome
         ELSE Throw /\ UNCHANGED owner
  /\ UNCHANGED <<tree, implementation, abi, code, dependencies, groupState, validatorGroups>>

TransferOwnership ==
  /\ AtScript(12)
  /\ run.next <= 6
  /\ LET c == TransferOrder[run.next]
     IN  owner' = IF owner[c] # "MultiSig" THEN [owner EXCEPT ![c] = "MultiSig"] ELSE owner
  /\ run' = [run EXCEPT !.next = @ + 1]
  /\ UNCHANGED <<tree, implementation, abi, code, dependencies, groupState,
                 validatorGroups, outcome>>

AllTransferred ==
  /\ AtScript(12)
  /\ run.next > 6
  /\ Continue
  /\ UNCHANGED <<tree, proxies, dependencies, groupState, validatorGroups>>

----------------------------------------------------------------------------
(* deployTask: `yarn deploy` takes the tag core; README, "Upgrade          *)
(* contract", takes proxy, once there are no new contracts to hand over.   *)
Start(tag) ==
  /\ run.tag = "none"
  /\ tag = "proxy" => \A c \in Contracts : owner[c] = "MultiSig"
  /\ run' = [Idle EXCEPT !.tag = tag]
  /\ outcome' = "running"
  /\ UNCHANGED <<tree, proxies, dependencies, groupState, validatorGroups>>

Finish ==
  /\ run.script = 14
  /\ run' = Idle
  /\ outcome' = "finished"
  /\ UNCHANGED <<tree, proxies, dependencies, groupState, validatorGroups>>

(* The host, its connection or the operator stops the run.                 *)
Interrupt ==
  /\ run.tag # "none"
  /\ run' = Idle
  /\ outcome' = "interrupted"
  /\ UNCHANGED <<tree, proxies, dependencies, groupState, validatorGroups>>

(* Between runs the operator may edit .env.                                *)
Configure ==
  /\ run.tag = "none"
  /\ validatorGroups' \in (SUBSET Groups) \ {validatorGroups}
  /\ UNCHANGED <<tree, proxies, dependencies, groupState, run, outcome>>

Script ==
  \/ DeployMultiSig \/ DeployManager \/ DeployAccount \/ DeployStakedCelo
  \/ DeployVote \/ DeployGroupHealth \/ DeploySpecificGroupStrategy
  \/ DeployDefaultStrategy \/ DeployRebasedStakedCelo
  \/ (\E g \in Groups : UpdateGroupHealth(g)) \/ GroupHealthDone
  \/ SetManagerDependencies \/ SetVoteDependencies
  \/ SetSpecificGroupStrategyDependencies \/ SetDefaultStrategyDependencies
  \/ (\E g \in Groups : ActivateGroup(g) \/ SkipUnhealthyGroup(g) \/ ActivateGroupFails(g))
  \/ GroupsActivated
  \/ TransferOwnership \/ AllTransferred
  \/ Finish

(* A network without any of the contracts, or one that release 1 runs on.  *)
Init ==
  /\ \/ /\ tree \in 2 .. 4
        /\ implementation = [c \in Contracts |-> 0]
        /\ owner = [c \in Contracts |-> "nobody"]
     \/ /\ tree = 2
        /\ implementation = [c \in Contracts |-> Version(c, 1)]
        /\ owner = [c \in Contracts |-> IF c \in FirstContracts THEN "MultiSig" ELSE "nobody"]
  /\ abi = implementation
  /\ code = implementation
  /\ dependencies = [c \in Contracts |-> Needs(c, code[c])]
  /\ healthy = {} /\ active = {} /\ activatable = {}
  /\ validatorGroups \in SUBSET Groups
  /\ run = Idle
  /\ outcome = "none"

Next ==
  \/ Script \/ Interrupt \/ Configure
  \/ \E tag \in {"core", "proxy"} : Start(tag)

Spec == Init /\ [][Next]_vars

----------------------------------------------------------------------------
(* Type correctness.                                                       *)
TypeOK ==
  /\ tree \in 2 .. 4
  /\ implementation \in [Contracts -> 0 .. 4]
  /\ abi \in [Contracts -> 0 .. 4]
  /\ code \in [Contracts -> 0 .. 4]
  /\ owner \in [Contracts -> {"nobody", "deployer", "MultiSig"}]
  /\ dependencies \in [Contracts -> 0 .. 2]
  /\ healthy \subseteq Groups /\ active \subseteq Groups /\ activatable \subseteq Groups
  /\ validatorGroups \subseteq Groups
  /\ run \in [tag : {"none", "core", "proxy"}, script : 0 .. 14, loop : BOOLEAN,
              todo : SUBSET Groups, placed : BOOLEAN, next : 1 .. 7]
  /\ outcome \in {"none", "running", "finished", "failed", "interrupted"}

(* Whatever run was cut short wherever, and whatever code was deployed in  *)
(* between: when MultiSig owns a contract, every contract it reaches has   *)
(* the dependencies its code needs.  The deployer can no longer set them.  *)
HandedOverWired ==
  \A c \in Contracts : owner[c] = "MultiSig" =>
    \A d \in Reaches(c) : dependencies[d] >= Needs(d, code[d])
============================================================================
