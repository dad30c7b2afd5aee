# StakedCelo: specifications, model checking and proofs

StakedCelo is a liquid staking protocol: users deposit CELO and receive stCELO,
the contracts lock the CELO and vote with it for validator groups, and anyone
may withdraw CELO for stCELO after the unlocking period of Celo's LockedGold.
This directory holds TLA+ models of the contracts that carry the protocol's own
state, of the off-chain tasks that drive them, and of how a network is deployed
and upgraded; the configurations that model-check them with TLC; and theorems
about them checked by TLAPS. Paths below are relative to the repository.

## 1. Inventory

| Component | State | Operations | Talks to |
|---|---|---|---|
| `contracts/Account.sol` | per group: CELO to vote, to revoke, to withdraw (and for whom); total scheduled withdrawals; per beneficiary: an array of pending withdrawals | for Manager: scheduleVotes, scheduleTransfer, scheduleWithdrawals, votePartially; for anyone: withdraw, activateAndVote, revokeVotes, finishPendingWithdrawal, receive | Election, LockedGold, GoldToken, Governance (Celo core) |
| `contracts/common/MultiSig.sol` | owners, required, delay, proposals (confirmations, one timestamp) | submit, confirm, revoke, schedule, execute; functions the wallet calls on itself; calls by Governance; pausing | owns every other contract |
| `contracts/Vote.sol` | per voter: votes and an array of voted proposals; per proposal: tally, timestamp | voteProposal, revokeVotes, three purges of history | Manager, StakedCelo, Governance |
| `contracts/StakedCelo.sol` (on `ERC20Upgradeable.sol`) | free and vote-locked balances, supply | mint, burn, transfer, lockVoteBalance, unlockVoteBalance | Manager |
| `contracts/Manager.sol` | each address's strategy | deposit, withdraw, voteProposal, revokeVotes, changeStrategy, transfer hook, rebalance, rebalanceOverflow | all of the above |
| `contracts/DefaultStrategy.sol`, `contracts/common/linkedlists/` | stCELO per active group in a sorted list, the unsorted groups, the activatable groups | distribution of deposits and withdrawals, activation, deactivation, rebalance, re-sorting | Manager, Account, GroupHealth |
| `contracts/SpecificGroupStrategy.sol` | total, overflowed and unhealthy stCELO per group, blocked groups | distribution, blocking, rebalancing of overflowed and unhealthy groups | DefaultStrategy, Manager, GroupHealth |
| `contracts/GroupHealth.sol` | a cached verdict per group | updateGroupHealth, markGroupHealthy | Validators, Election |
| `contracts/RebasedStakedCelo.sol` | stCELO deposited per account | deposit, withdraw, transfer | StakedCelo, Account |
| `contracts/Pausable.sol` and the other helpers | a flag and a pauser per contract | pause, unpause | inherited by most contracts |
| `lib/account-tasks`, `lib/task-utils.ts` (bots) | none between runs; within one, the groups gathered, the entry and the indices found | walk the strategies' lists, read, look up hints and indices, send one transaction at a time | Account, both strategies, Election, LockedGold |
| `lib/multiSig-tasks` | none; they print calls to paste | encode payloads, three update tasks, submit, confirm, revoke, execute | MultiSig, `deployments/[network]` |
| `deploy/` (fourteen scripts), `lib/deploy-utils.ts`, `lib/deployTask.ts` | `deployments/[network]/X.json` and `X_Implementation.json` | deploy, upgrade, set dependencies, activate groups, hand over | every contract |
| `lib/manager-tasks`, `scripts/` | none | one transaction, or files of the build | |

How they interact. A user's call to Manager is one transaction: Manager asks
a strategy how to spread an amount over the groups, mints or burns stCELO and
*schedules* the amounts in Account. Nothing moves yet. The bots later, in any
order and interleaved with other users' calls, make Account vote, revoke,
withdraw and pay. So the hard part of the protocol is not concurrency inside a
transaction (there is none) but **what is scheduled and what is done drifting
apart over interleaved transactions**, while Celo's contracts change under it:
epoch rewards, groups that stop accepting votes, an array of pending
withdrawals with its own order, a referendum that ends, a clock. The bots and
the deployment scripts add the usual faults of programs that talk to a chain:
reads that are stale when the transaction is mined, errors and crashes half way,
a clock of their own.

What makes each component correct, and where it could go wrong:

* **Account**: every CELO is attributed to one group or one beneficiary, once;
  netting of votes against revocations loses nothing; every scheduled
  withdrawal is paid in full, once, not before its date.
* **Bots**: whatever they read and however often they fail, every withdrawal
  scheduled gets paid and all CELO votes in the end.
* **MultiSig**: the wallet never locks itself out, changes itself only with
  the consent of a quorum and after the delay, and executes a proposal at most
  once.
* **Voting**: stCELO cannot vote twice by moving; a lock holds as long as the
  vote counts and no longer.
* **DefaultStrategy and its list**: the sum over groups is the stCELO of the
  strategy, and covers those whose votes it casts, through all roundings; the
  list is sorted except where it says it is not, and can be sorted again;
  rebalancing comes to an end.
* **Strategies (Manager with SpecificGroupStrategy)**: StakedCelo, Manager and
  the strategies agree on whose stCELO votes for what; a group lends the
  default strategy no more than it has, and what it lent is covered; after
  rebalancing the CELO is where the stCELO is.
* **Deployment and release**: no contract leaves the deployer's hands before
  what it needs is set; no network runs a mixture of releases; every network
  gets to the last one.

`PROJECT.json` lists all hazards by line.

## 2. Modules

| Module | Models | Kind |
|---|---|---|
| `Amounts` | sums and truncated subtraction of token amounts | operators |
| `Account` | `Account.sol` with the parts of Election, LockedGold and GoldToken it uses | component |
| `Claims` | what Account promises a beneficiary | abstract specification |
| `AccountClaims` | Account implements Claims; what must happen in the end | refinement |
| `Bots` | `lib/account-tasks`, on `Account`, with what Manager and the strategies do meanwhile | composition |
| `MultiSig` | `MultiSig.sol`, `ExternalCall.sol` | component |
| `Timelock` | the life of a proposal | abstract specification |
| `Voting` | `Vote.sol`, the locks of `StakedCelo.sol`, the functions of `Manager.sol` that drive them | composition |
| `VoteHistory` | the loop over a voter's array of proposals, in every state of `Voting` | algorithm |
| `SortedGroups` | the sorted list as a sequence of groups with values | operators |
| `OrderedList` | what the list promises | abstract specification |
| `LinkedGroups` | `LinkedList.sol`, `SortedLinkedList.sol`, `AddressSortedLinkedList.sol`, pointer by pointer | component, refinement |
| `DefaultStrategy` | `DefaultStrategy.sol` on `SortedGroups` | component |
| `Strategies` | `Manager.sol` with `SpecificGroupStrategy.sol` and the verdicts of `GroupHealth.sol`, on what the modules above promise of DefaultStrategy and Account | composition |
| `Deployment` | `deploy/`, `lib/deploy-utils.ts` | component |
| `Release` | `lib/multiSig-tasks` on `Deployment` | composition |
| `AmountsProofs` | facts on sums and rounding | lemmas |
| `AccountProofs` | theorems on `Account`, `AccountClaims` and `Bots` | proofs |
| `SortedGroupsProofs` | facts on the list; theorems on `LinkedGroups` | lemmas, proofs |
| `VotingProofs` | theorems on `Voting` and `VoteHistory` | proofs |
| `DeploymentProofs` | theorems on `Deployment` and `Release` | proofs |
| `MultiSigProofs`, `DefaultStrategyProofs`, `StrategiesProofs` | theorems on the component of that name | proofs |
| `MCAccount`, `MCBots`, `MCMultiSig`, `MCVoting`, `MCLinkedGroups`, `MCDefaultStrategy`, `MCStrategies`, `MCDeployment` | instances for TLC | model checking |

Conventions. A transaction is one step. A transaction that reverts changes
nothing, so its `require`s, reverts and checked subtractions are guards. A
variable has the name of the storage it stands for; variables marked
*external* are what Celo's contracts hold for the account, variables marked
*history* exist only for a property. A definition `Bug_...` beside a definition
is a mistaken form of it: with it in place the property named in
`PROJECT.json` ("mutants") fails, which shows that the property sees that part
of the code.

**Account.** `toVote`, `toRevoke`, `toWithdraw`, `toWithdrawFor` are the fields
of `scheduledVotes[group]`. `ManagerStep` are the calls of Manager with any
allocation over the groups: the strategies' choices are a subset, so that what
holds here holds for every strategy. `BotStep` are the calls open to anyone.
`EnvironmentStep` are rewards, epochs, groups that stop or resume accepting
votes, the clock, donations and pausing. Not modelled: slashing of the
account's own gold; the `lesser`/`greater` hints, which only make Election
revert.

**MultiSig.** `config` gathers what the wallet can change in itself. A
proposal is a pair of calls, run in order and only together, because a batch may
first lower the number of owners and then change the requirement, or the
reverse. `endorsed` records whether a quorum of the owners of that moment stood
behind a proposal when it was scheduled. `timestampExecutable` uses the code's
encoding: 0 open, 1 done, above 1 scheduled. Left out: a proposal that calls
`executeProposal` of another one, values, upgrades.

**Voting.** `balances` and `lockedBalances` partition the supply. Votes are
given in CELO and locked in stCELO at the rate of the moment, with the code's
rounding. `proposalTimestamps` is shared between voters as in the code, so one
voter's purge deletes the timestamp another's lock depends on. A voter's array
of proposals is a set here; `VoteHistory` runs the loop with its in-place
removal in every state and for every order of the array; it computes that step (`HistoryUpdated`).

**LinkedGroups and SortedGroups.** `LinkedGroups` keeps the storage of the three
libraries as one record, since an update removes and inserts in one transaction. Its keys
are the groups, so `toBytes` and `toAddress`, inverse to each other on
addresses, disappear. `SortedGroups` says the same on sequences, with the
walks of `AddressSortedLinkedList` in closed form; `OrderedList` makes a state machine
of it, which `LinkedGroups` implements (`ImplementsOrderedList`), and
`WalksAgree` ties the walks. So `DefaultStrategy` may use `SortedGroups`.

**DefaultStrategy.** Nothing interleaves with a transaction, yet
a deposit, a withdrawal and a deactivation each go round a loop that reads the
list its earlier turns changed. These three are split into steps, one for each turn;
`tx` holds the local variables and all other actions wait for `NoTx`. The step
`Revert` puts the storage back at any point, which stands for the loop's own
revert, a revert of the caller later in the transaction, and want of gas. What
other contracts answer (rate, receivable votes, CELO of a group, health) is any
value of a small set, chosen when first asked and remembered in `tx`, because
within the transaction the answers do not change: the strategy's choices are
scheduled only after it returns. The CELO of a deposit is at most what its stCELO
is worth: Manager converts the one into the other, and
`SpecificGroupStrategy.transferToDefaultStrategy` passes less when the group
has not all of its CELO yet. `owed` is the stCELO of those whose
votes the strategy casts, as their deposits and withdrawals add up outside it.
Left out: events and the returned arrays, apart from `tx.votes`.

Two things the model shows of this contract are no errors against any line of
it, and worth knowing. `_deactivateGroup` takes a group off the unsorted ones and
leaves `sorted` alone: when it was the only one, `sorted` stays false and
`updateActiveGroupOrder` has nothing to sort, although its comment says that one
must call it. The flag recovers only when another group becomes unsorted and is
sorted; until then the loops go along the list instead of returning to its end,
so deposits visit each group once. A withdrawal that empties the head may run off
the list: `trySort` moves the emptied head to the tail before the loop asks for the group after
it (DefaultStrategy.sol 529 to 534), and the call reverts although other groups have the CELO.
What the head has can still be withdrawn, then what the next head has, in calls of their own. And rebalancing ends (`RebalanceSettles`), but not in turns
with sorting: with two equal groups of which one has the division's remainder,
`updateActiveGroupOrder` may make either the head, and each `rebalance` then
moves the remainder there and leaves a group unsorted again.

**Strategies.** A deposit, a withdrawal, a transfer of stCELO and a change of
strategy change the books of the specific strategy and of the default one in
one transaction; only the first two schedule CELO. The books of both are one
record, `books`, and a transfer applies a deposit to the books that a
withdrawal leaves. CELO follows when anybody calls `rebalance`,
`rebalanceWhenHealthChanged` or `rebalanceOverflowedGroup`. Of the loops of
DefaultStrategy the module keeps what `DefaultStrategy` is shown to promise
(`NothingLost`, `Covered`, and `ToPlace` and `ToTake` of its proof): a deposit adds exactly its stCELO, in any
split, and a withdrawal takes, in any split, at most what its CELO is worth and
at most one unit a turn less (`DefaultWithdrawals`): more than the code's loop may do in any order of its list,
which is what the invariants need. Whether a withdrawal goes through at all needs the loop
itself: `LoopEnds` runs it while the list is sorted, from the head, group by group, no
further than `maxGroupsToWithdrawFrom`, and wherever groups tie for the head in every order;
`HeadFirst` are the runs that find all of the CELO, the others revert. `LoopsCovered` ties the two together.
`BalancedServes` and `GetsBalanced` are about this loop and state their conditions: the list is sorted and its
updates find their place, and the limit is no less than the number of active
groups (`AllInReach`). Where one fails, a withdrawal of more than the first groups have, or the return of
all that an unhealthy group lent, reverts each time, until `updateActiveGroupOrder` or the owner's
settings mend it; a holder can withdraw in smaller parts meanwhile. Deposits are taken to
find, within `maxGroupsToDistributeTo` groups, room for their CELO. Of Account it keeps `getCeloForGroup`
(`BotsPreserveGroupCelo` says that nothing else changes it); CELO that somebody sends to Account, which
`getTotalCelo` counts and no group has, is left out. The verdict on a group's health
turns at any time; what a group can receive is any answer that makes a
difference. Left out: the totals that nothing reads, pausing and vote locks,
which only make calls fail, the owner's `updateGroupStCelo`, and what
DefaultStrategy does by itself.

`rounded` counts the withdrawals from a group that lose a unit: the CELO taken
from the default strategy is converted back to stCELO, rounding down, while the group's total is
reduced by all of the stCELO. Without the count `LentWithinTotal` is false: at
a rate of 3 CELO to 2 stCELO, a holder of an overflowing group who transfers one unit leaves the
group lending a unit more than it has. `rebalanceWhenHealthChanged` of such a group would revert on
its subtraction until somebody deposits for the group. The amount is 10^-18 stCELO a withdrawal.

**Bots.** A task is a program with a place (`run.at`) and local variables. The
walk through DefaultStrategy's list is one step a call, because deposits reorder
the list meanwhile; the reads that decide on a group, and the transaction they lead to,
are two steps, and `upToDate` tells whether anything was mined in between. A
transaction based on stale reads may be refused, and the first error ends the
run: the tasks catch it and log it. The next run starts from nothing. One host
runs the tasks in any order; others, or users who call Account themselves, are
`OtherCaller`. `finishPendingWithdrawals` compares timestamps with the host's own clock
(`MaxSkew`). `MCBotsUnlisted` records what the tasks do not do: a group that
the owner deactivates leaves the list with its votes still to be revoked.

**Deployment.** Every transaction of a script is a step, with what it writes to
`deployments/[network]`, and any step may be the last of a run; the
next run goes by what it finds. One step is coarser: the first deployment of a contract, which deploys
the implementation, records it, deploys the proxy and records it (`DeployProxy`). A run cut short inside it leaves an
implementation, perhaps on record, that no proxy uses yet, and the next run goes on from there. `implementation` and `abi` are the files of
`deployments/[network]`, `code` and `owner` what the chain says. hardhat-deploy is
modelled from how the scripts use it: it creates what is not on record and replaces
the implementation of what has changed; on a proxy that belongs to MultiSig it stops
after deploying the implementation, so `X.json` goes on describing the release before.
Four things follow from the scripts as they are:

* a run that stops between the deployment of GroupHealth and its
  `updateGroupHealth` calls is not made up for: the next run finds GroupHealth there
  and skips them, and script 11 then activates no group;
* from release 3 on `activateGroup` wants the group activatable, which no
  script makes it: a run with healthy configured groups fails at script 11. One that
  repeats an interrupted run meets groups that are active already, or passes the hints (0, 0) for the first group it
  activates, which the list takes only when it is empty. All fail before the
  contracts are handed over. So `AllInPlace` takes `.env` to have no groups in the end;
* a new network deployed from release 3 or 4 has no pauser in any contract,
  since only the update task sets them;
* the functions a release adds cannot be encoded from `X.json` before it is
  brought up to date by hand (`RefreshAbi`): the task prints a blank payload, and
  `submit:proposal` fails on it.

**Release** adds the owners: a release is checked out, deployed, an update task
prints one proposal, and owners submit, confirm, revoke and execute it while runs of
the deployment go on. MultiSig has one proposal at a time here; what it does
with several is in `MultiSig`. The operators are taken to follow the repository's README in
running an update task only after a deployment that finished, and in preparing the next
proposal when none waits.

## 3. Runs

| Run | Question | Instance |
|---|---|---|
| `MCAccount` | do the books balance under every interleaving, and is every beneficiary paid what he is promised and no more? | 2 groups, 2 beneficiaries, 3 CELO, unlocking period 2, symmetry |
| `MCBots` | do the tasks find what they look for, and is everything paid and voted in the end? | 1 beneficiary, unlocking period 1, clocks 1 apart, and three instances in one run: 1 CELO while a group joins, moves and leaves; 2 groups, 2 CELO, epochs with rewards; 3 groups, 2 CELO; 107 thousand states |
| `MCBotsUnlisted` | are all groups with something scheduled on a list the tasks read? (No) | as `MCBots` |
| `MCMultiSig` | can the wallet lock itself out, be changed without a quorum, or break its time lock; do proposals with a quorum get scheduled, and executed? | 3 addresses, 2 owners, 2 required, 2 proposals of 5 payloads, times up to 2 |
| `MCMultiSigReconfirm` | is a proposal fully confirmed when executed? (No) | as `MCMultiSig` |
| `MCVoting` | does stCELO vote twice, or a tally go wrong; does the loop over the history compute its step; does locked stCELO come free? | 2 voters, 2 proposals, 1 kind of vote, 3 CELO, times up to 2; 820 thousand states |
| `MCLinkedGroups` | do pointers and hints keep one sorted list? | 4 groups, 3 values, walks up to 4 |
| `MCDefaultStrategy` | what do the list, the flag and the sums promise, whatever order things happen in? | 3 groups, 2 stCELO, 2 rates, walks of 2, at least 1 group, one correction by 1 by the owner, symmetry |
| `MCDefaultStrategySettling` | does rebalancing end? | all consistent books of 3 groups, 4 stCELO, walks of 1 and 10 |
| `MCDefaultStrategyCapacity` | does a deposit above all capacity revert? (No) | 2 groups, 2 stCELO |
| `MCStrategies` | do three contracts agree on who votes for what; is the loan to the default strategy covered and within the group's total; does rebalancing let everyone withdraw? | 3 groups, one of them active and chosen by holders, one only active, one only chosen; 2 holders, 2 CELO, 2 stCELO; 80 thousand states |
| `MCDeployment` | is anything handed over unwired, do releases mix, does every network get to the last release? | 2 healthy groups and one that is not, 2 owners and one more, 2 required; 387 thousand states |

Bounds. `MaxCelo` bounds CELO that ever enters `Account`: with 3 there are partial
amounts on both sides of every `min` (a balance short of what is scheduled, a
withdrawal partly at once and partly later, a revocation from pending and active
votes). Two groups give transfers in both directions. `MaxTime` stops the clock only when nothing is
locked, so it never hides a maturity. `MCBots` starts
in one of three instances (`Bounds`; the variable `bounds`, which never changes, says which): all at once would be
out of reach, since the local states of the tasks multiply everything. In the first one unit of CELO goes through every
call while the list changes under the walk. In the second two groups have CELO and withdrawals at once, through epochs and rewards, and in the third three groups: two wait
for votes while the CELO is still to be revoked from the third, so that one takes from the pool what the other was
to get; both arrays of pending withdrawals hold two entries; and tasks meet a group that fails before one that would not. In
`MCMultiSig` the payloads cover every
function the wallet may call on itself but `unpause` (Governance and the guardian unpause it), each paired with the one it interferes
with, and one batch that cannot fail, on which `ScheduledGetExecuted` rests; two proposals let one change the wallet
under the other. There are at most two owners, so that a removal, an addition and a
replacement each meet both limits. In
`MCVoting` the two referenda start at any of the times 1 and 2 and last one unit, so
they overlap, coincide or follow each other; rewards change the rate between
vote, lock and unlock; of the contracts that can be paused only Vote is, whose pause could come between a vote and
its revocation or purge. One bound of `Voting` is an assumption: nobody withdraws
the last stCELO. After that the code's rate starts again at one to one, and
stCELO bought before could be worth any amount; the protocol never empties in
practice. In `MCLinkedGroups`
four groups give every kind of gap (empty, at either end, between two, next to
the one that moves), and three values give ties on both sides. In
`MCDefaultStrategy` a walk limited to two steps, one of which it loses on arrival,
fails for a group that has to pass two others and succeeds for one that passes one, so
that groups become unsorted at any point of a loop; the rate 2 to 3 rounds
in both directions and 1 to 1 in none, and answers of 0, 1 and 3 are none,
less than and more than what is asked of a group. `MaxStCelo` bounds what
is deposited: with two units a call visits two groups, or one and stops at the
limit. `MaxAdjusted` bounds the groups that the owner corrects. In
`MCStrategies` two units give a group that is half overflowed, half unhealthy or half its own, and
two holders of different choice; the three groups are the three ways a group can belong to the strategies, and a
withdrawal takes from two active groups in either order. Withdrawals that round need a third unit of CELO: an instance with one
active group and three CELO, in which they happen, passes as well; here roundings are left to the theorems, which hold at every rate. In `MCDeployment`
two healthy groups and an unhealthy one, configured at any time, take both branches of every check, hints included, and four releases are
all there are.
`MCDefaultStrategySettling` stops when everything is balanced and `MCBots` when nothing is
left to do, hence no deadlock check there.

What the runs show beyond "no error":

* `GroupSolvent` together with `BotsPreserveGroupCelo` means that the truncation
  in `getCeloForGroup` (Account.sol 795) is never taken: the branch is dead code,
  kept for safety.
* `MCMultiSigReconfirm` finds a disagreement with a comment: a scheduled
  proposal is executed without another look at its confirmations
  (MultiSig.sol 789), although the comment on `executeProposal` requires it to be
  "fully confirmed". `ChangesEndorsed` is what holds instead: it had a quorum
  when it was scheduled. The comment on `confirmProposal` (MultiSig.sol 751), "A proposal is executed
  if this confirmation makes it fully confirmed", is stale in the other direction: the code
  only schedules it, and `ImplementsTimelock` says that the delay is always kept.
* `MCDefaultStrategyCapacity`: while sorted, the loop returns to
  the tail and may ask a group again, whose receivable votes do not count what it has just
  been given; a deposit that no set of groups can receive is then accepted. A test
  says it reverts. `Manager.rebalanceOverflow` exists to move such votes later.
* `MCBotsUnlisted`: deactivating a group schedules its votes to be revoked and takes it
  off the list from which the tasks gather "the full list of groups with potential
  withdrawals". Unless it has had a specific deposit, no task handles it until somebody calls Account by hand.
* `SortedMeansSorted` and `ListTracksStCelo` say when the list can be relied on: the owner's
  `updateGroupStCelo` is the only way to falsify them, and `adjusted` exempts its
  groups. The list stays in order and `Covered` holds in spite of it.
* `AllPaid` is not obvious: `Account.withdraw` reverts while CELO of the group is
  in transit, CELO scheduled for one group is used to vote for another
  (`activateAndVote`), and the first group that fails keeps a task from those behind it. It
  holds because `Conserved` holds and each task handles all groups on the lists.
* `BalancedServes` and `GetsBalanced`: a change of strategy may leave a holder unable to
  withdraw. While the list is sorted, no limit cuts the loop short, groups can receive votes and
  nothing was rounded, the rebalancing calls, open to anyone, end that. They say nothing of a list whose flag stays false.

Fairness. Every liveness property states what its system is taken to do.
`Bots!FairBotSpec`: a task that runs goes on (weak fairness of `RunStep`), every task is
started again and again (strong fairness of `Start`, which waits for the one at work), and time passes;
in the end hosts stay up, Manager stops moving CELO between groups, the list keeps its order
and no group off the lists has anything scheduled (`Settled`). These are needed: with endless transfers, for example, CELO is in transit again whenever
a task comes to withdraw it. `MultiSig!FairSpec` needs an owner to schedule and anyone to execute
what can be executed; `Voting!FairSpec` someone to call `unlockVoteBalance`, which
is open to anyone. Both take pauses to end. `DefaultStrategy!SettlingFairness` needs someone to call `rebalance`,
open to anyone, as long as some pair of groups allows it; the run starts from every state that satisfies the
invariants of the other runs (`Consistent`) and takes no other steps. `Strategies!FairSpec` needs
somebody to go on making whichever rebalancing call does something, in any order, while users, verdicts and
rewards rest, groups can receive votes and the list is sorted (`SortedRebalanceStep`); calls whose loop does not find all of the CELO are
not made. `Release!FairReleaseSpec` needs operators who start again what failed, sign,
execute and refresh `X.json`; in the end nobody interrupts a run, edits `.env` or revokes a confirmation, and `.env`
configures no group.

## 4. Proofs

For all values of the constants (any finite sets of groups, beneficiaries, voters, holders,
addresses and proposals, any amounts and bounds), from the assumptions named in the modules. Every invariant and every
action property that a passing run checks is the statement of a theorem, and so are the three refinements. Type correctness
of each component is a theorem and not an invariant of the runs; it includes that no
checked subtraction goes below zero.

`Total` is defined as the cardinality of a set of
units and not as a recursive fold, because the library has theorems about
cardinality; `MCAccount` assumes,
and TLC evaluates, that the two agree. `AmountsProofs` has what all modules use: `Total` is linear,
monotone and changed at one place, and rounded division loses less than one unit, however a sum is split (`FloorSum`).

The prover cannot instantiate an induction scheme over data. Where a loop or a recursive function has to be
followed, the proofs take the least number of turns at which the claim fails, which a nonempty set of naturals has
(`MinExists`), and show that it did not fail one turn earlier nor does it at this one.

**Account** (`AccountProofs`). `IInv` is the conjunction of `TypeOK`, `Netted`,
`GroupSolvent`, `WithdrawalBooksAgree` and `Conserved`. The conjuncts need each
other: with `Netted`, the netting in `withdraw`, `activateAndVote` and `revokeVotes` is the identity
(lemma `NetIdle`), so these calls change scheduled amounts only by what they
pay, vote or revoke; with `GroupSolvent`, `getCeloForGroup` is a plain
difference (`FreeFact`), so what is scheduled to leave a group is taken from
what is free; the sums then follow from the lemmas on `Total`. From `IInv` follow `CeloAttributed`
(an equation between five sums, not run) and the action properties
`BotsPreserveGroupCelo` and `BotsConserve`. `AccountInv` adds two facts. `Bounded`: CELO stays within the model's bound, because
only what brings CELO in checks it and no other step makes any. `AllMatched`: each entry is in LockedGold's array as often
as in all beneficiaries' arrays together. It is said of every entry there could be, since removal by moving the
last entry loses the order and only counts survive it.

*Claims* (`ClaimsKept`): the mapping takes what is scheduled for a beneficiary as owed and the bag of his pending withdrawals as
dated claims. Appending and removing by swap are addition to and subtraction from that bag; `AllMatched` is what lets
a claim be paid only by an entry of its own amount and date.

*Bots* (`BotsInvariant`): `BotInv` adds to `AccountInv` what a run at work knows. `RunOK` says where it can be,
`ListsOK` that a list names no group twice, and `Walked` that the groups it has read are the first of the list and the next one follows them, as
long as nothing has changed meanwhile. The rest of the system, including Manager's calls, takes steps of
Account or of the clock, or none
(`BotsMove`), so that Account's invariant and its refinement hold in it too (`BotsKeepClaims`).

**MultiSig** (`MultiSigProofs`). `IInv` says that the configuration is valid,
that nothing that is not submitted is confirmed or scheduled, that what is
scheduled was endorsed, and that the clock is past the code's magic timestamp 1.
The validity of the configuration is preserved by each call the wallet makes on itself
(`EffectValid`), hence by a batch (`RunValid`), although in the middle of a
batch the owners may be on their way down. A quorum is never empty because the
requirement is at least one: that is why `scheduleProposal` may do without
`proposalExists` (`OnlySubmittedAlways`). `TimelockKept` is the refinement:
every step of MultiSig is a step of `Timelock` or a stutter.

**Voting** (`VotingProofs`). Two facts carry the argument. Minting and paying out both round in the
system's favour, so the rate between CELO and stCELO never falls, and a lock that backed
a vote when it was cast backs it for as long as it counts (`LocksSuffice`). And while a vote counts, the voter's
history names it with its time (`HistoryKept`), so unlocking finds every vote a lock must still back, whatever
anyone has purged. `VotesBacked` follows by summing over the voters.

*History* (`HistoryAlwaysUpdated`): `Swept` is the invariant of the loop. After some turns the array begins with the entries not yet
looked at, unmoved, and ends with those kept, in some order; what was dropped has no timestamp any more, and the
lock is the largest weight of those kept. The entry moved into a hole is always one of those kept, which is why none is
skipped.

**The lists** (`SortedGroupsProofs`). On sequences: every update that the list accepts
keeps it ascending, whatever hint was given (`UpdateFact`), and for any list and value some hint is accepted (`HintExists`),
hence `AlwaysSortable`, which is proved and not run. On pointers: the invariant is that the storage is `StorageOf(l)`, the
pointers of an ascending list `l` without repetitions (`StorageInv`). Linking, unlinking and updating the storage of a list
give the storage of the list with that key inserted, removed or updated, with the same guards; that is the
refinement (`ListImplemented`), and the other properties are what `StorageOf` says of heads, tails and neighbours. The
walks are recursive: those of `WalksAgree` pass each key that the closed form says they pass, up to the limit.

**DefaultStrategy** (`DefaultStrategyProofs`). The invariant says that the books are sound between the turns of a loop and
where a revert leads back to, and that what remains to be placed or taken is worth the CELO that
remains (`ToPlace`, `ToTake`): since parts rounded down sum to at most the whole rounded down, no turn takes more than
the transaction was asked for. That gives `Covered` and `NothingLost` at every rate. The module reads the lemmas on
sequences from `SortedGroupsProofs`; the variable `storage` that comes with them plays no part in it.

**Strategies** (`StrategiesProofs`). The invariant is `Right` (the totals are what the holders chose, and the default strategy
covers its own holders and all loans), `Within` (`LentWithinTotal`) and `Valued` (stCELO is never worth less than a CELO).
`Valued` is what bounds a rounding by one unit. What a withdrawal and a deposit keep is proved for any books
(`WithdrawalKeeps`, `DepositKeeps`), because a transfer applies the one to what the other leaves, which are the books of no
state. For `BalancedServes` the default strategy must also book nothing for groups that are not its own (`Apart`): what a
holder asks of it is then within what its active groups have. That the loop finds it (`LoopServes`) is an argument on its
turns: at par, and with each group's CELO where its stCELO is, a turn that does not end the loop empties the head, and an empty head
means that all are, so after as many turns as there are groups nothing is left. `LoopsCovered` follows in the same way from what
one turn keeps (`TurnKeeps`), at any rate and without any of these conditions.

**Deployment and releases** (`DeploymentProofs`). The invariant of `Deployment!Spec` says how far the run at work has come: past the
script that sets a contract's dependencies they are set, unless an earlier run handed the contract over, when they were set
before. That of `Release!ReleaseSpec` (`RInv`) adds what runs have deployed by now (`Worked`); that the contracts are all at the
release checked out (`Current`) or all at the one before (`Upgrading`); and that calls that wait, printed or submitted,
name an upgrade for whatever differs, with the dependencies the new code needs (`Waits`). The batch is executed whole, so
it leads from `Upgrading` to `Current`: `ReleasedTogether`, `HandedOverWired` over upgrades, and `ExecutionLeavesNothing`, which is not run.

Only model-checked: everything under fairness (`AllPaid`, `AllVoted`, `ConfirmedGetScheduled`, `ScheduledGetExecuted`,
`AllUnlocked`, `RebalanceSettles`, `GetsBalanced`, `AllInPlace`), which is out of
the prover's reach. The runs with `Fair...` specifications check their invariants under the same next-state relation as the
theorems, which need no fairness.

## 5. What is done and what is left

Done, in this order: Account and its promise, MultiSig and its time lock, Voting, the lists, DefaultStrategy, the bots
on Account, deployment and releases, and Manager with both strategies. The runs are kept few, one to a question: a
component that is added brings its deepest properties. What could come next:

1. `RebasedStakedCelo`: deposits, rounding, transfers of whole balances.
2. `GroupHealth`'s checks, on a model of Validators and Election.
3. The settings left out of a component (`setPauser`, `setDependencies`), as actions of it.

## 6. Not modelled, and why

* `RebasedStakedCelo.sol`: a wrapper that nothing else of the protocol depends on; its two
  roundings are listed as a hazard.
* `GroupHealth`'s election and slashing checks: what they compute from Celo's contracts is an input, the verdict, to
  everything else, and any verdict may come at any time.
* `manager-tasks`, `schedule-proposal` and the tasks that print a getter: each is one transaction or call of a contract
  modelled here. `scripts/`, the build and its configuration: no behaviour of the protocol.
* Test doubles and helpers (`contracts/mock`, `contracts/test`, `test-ts`): read as documentation of the external contracts.
* Proxies, the registry and access modifiers: which actor takes an action says who may call it.
* Allowances of the ERC20 tokens are vendored code, unchanged. Celo's own contracts
  are external: they are modelled from how the contracts here use them; slashing of the account's gold is not.
* Overflow of 256-bit sums is out of reach of the amounts of CELO that exist, and Solidity 0.8 reverts on it;
  underflow, which does matter, is a guard wherever the code subtracts.
* Owner settings without effect on the properties (`setDependencies` after deployment, `setPauser`), and in
  `Strategies` the owner's `updateGroupStCelo`, which may put any figure into the books.

## 7. How to run

    tlc -workers 2 -config MCAccount.cfg MCAccount
    tlapm AccountProofs.tla

The runs take between a second and three minutes each on two cores; the proofs of each module
take a few minutes.
